---- MODULE Spec2Model ----
(***************************************************************************)
(* Workie.lk backend: the outbound email engine of utils/emailService.js   *)
(* (sendEmail: credential gate, recipient gate, transporter.verify retry   *)
(* loop, transporter.sendMail retry loop).                                 *)
(*                                                                         *)
(* One behaviour follows one call of sendEmail.  A step of the model is    *)
(* one run-to-completion slice of the async function: from the call, or    *)
(* from the timer or transport callback that resumes it, to its next       *)
(* await, return or throw.                                                 *)
(*                                                                         *)
(* Further specifications: LoopSpec, the error classifier of               *)
(* utils/cloudEmailConfig.js (handleCloudEmailError) and a loop that       *)
(* follows it; ConcSpec, RotateSpec and RateSpec, several calls of         *)
(* sendEmail in one process; MessageSpec, one call of sendEmail or of a    *)
(* send* wrapper with the transport configuration and the message it       *)
(* builds; RenderSpec, two renders of emailTemplates; ActivitySpec, the    *)
(* requests of middleware/activityTracker.js (trackActivity) interleaved   *)
(* with the sweeps of markInactiveUsersOffline, with TrackSpec the         *)
(* requests alone and SweepSpec the sweeps alone.  Each specification      *)
(* holds the variables of the others still.                                *)
(***************************************************************************)
EXTENDS Integers, Sequences, FiniteSets, TLC

\* ------------------------------------------------------------ constants
\* emailService.js:68  const maxRetries = 5
maxRetries == 5
\* emailService.js:69  const baseDelay = 3000
baseDelay == 3000
\* emailService.js:133 Math.min(..., 30000)
maxDelay == 30000
\* emailService.js:133 Math.random() * 1000
jitterRange == 1000
\* emailService.js:158 const maxSendRetries = 3
maxSendRetries == 3
\* emailService.js:185 1000 * Math.pow(2, sendRetryCount)
sendBaseDelay == 1000

\* cloudEmailConfig.js:65 Math.min(2000 * Math.pow(2, attempt), 30000)
cloudBaseDelay == 2000
cloudMaxDelay == 30000
\* cloudEmailConfig.js:81 delay: 5000
dnsDelay == 5000
\* cloudEmailConfig.js:86 attempt < 3
unknownRetryCap == 3
\* cloudEmailConfig.js:88 delay: 3000
unknownDelay == 3000

\* emailService.js:28 rateLimit: 3
rateLimit == 3

\* middleware/activityTracker.js, in minutes
\* line 36: Date.now() - 5 * 60 * 1000
staleAfter == 5
\* line 59: setInterval(markInactiveUsersOffline, 2 * 60 * 1000)
sweepEvery == 2

\* ------------------------------------------------------------ bounds
\* calls of sendEmail made by one process, with failing transports
NumDispatches == 2
\* calls of sendEmail made by one process, with a healthy transport
RateDispatches == 4
\* largest maxAttempts a classifier-driven loop is given
MaxAttemptsBound == 6
\* Math.random() * 1000 ranges over [0, 1000): the model samples it at
\* JitterSteps + 1 evenly spread integer points, 0 and 999 always included.
JitterSteps == 1
\* documents of the User collection
NumUsers == 2
\* requests that pass through trackActivity
NumRequests == 2
\* minutes a database operation may take to settle
MaxLatency == 2

JitterSamples == { (k * (jitterRange - 1)) \div JitterSteps : k \in 0..JitterSteps }

\* ------------------------------------------------------------ values
\* A JavaScript string is a sequence of characters; `undefined` is a value
\* that is not a string.
Undefined == [defined |-> FALSE, chars |-> << >>]
Str(s) == [defined |-> TRUE, chars |-> s]

\* JavaScript truthiness of a string-or-undefined value: !v is true for
\* undefined and for the empty string.
Falsy(v) == ~v.defined \/ v.chars = << >>

\* String.prototype.includes for a one-character needle.
includes(v, c) == \E i \in DOMAIN v.chars : v.chars[i] = c

\* options.to as the callers give it
Recipients ==
  { Undefined, Str(<< >>), Str(<<"n", "o">>), Str(<<"a", "@", "b">>) }

\* process.env.EMAIL_USER / EMAIL_PASS
EnvUsers == { Undefined, Str(<< >>), Str(<<"u">>) }
EnvPasses == { Undefined, Str(<<"p">>) }

\* error.code of a failed transporter.verify
VerifyCodes == { "EAUTH", "ECONNECTION", "ETIMEDOUT", "EDNS", "EOTHER" }
\* error.code of a failed transporter.sendMail
SendCodes == { "EAUTH", "EENVELOPE", "ECONNECTION" }

RECURSIVE pow2(_)
\* Math.pow(2, n) for the non-negative integers n the code passes
pow2(n) == IF n = 0 THEN 1 ELSE 2 * pow2(n - 1)

min(a, b) == IF a <= b THEN a ELSE b

VARIABLES
  envUser,        \* process.env.EMAIL_USER
  envPass,        \* process.env.EMAIL_PASS
  to,             \* options.to of the call
  pc,             \* where sendEmail is
  transporters,   \* number of transports createTransporter has built
  retryCount,     \* let retryCount
  sendRetryCount, \* let sendRetryCount
  probes,         \* transporter.verify calls whose callback is still to come
  verifyCalls,    \* number of transporter.verify calls made
  sendCalls,      \* number of transporter.sendMail calls made
  verifyOks,      \* number of verification promises that resolved
  verifyCodes,    \* codes of the failed verification attempts ("TIMEOUT": the 20 s timer)
  sendCodes,      \* codes of the failed send attempts
  delay,          \* delay of the last verification backoff wait (0: none yet)
  sendDelay,      \* delay of the last send backoff wait (0: none yet)
  verifyLog,      \* last event logged by a verify callback
  sendLog,        \* attempt number of the last send event logged (0: none)
  outcome,        \* what the caller got: "none", a result or an error
  deadlinePassed, \* the caller's own deadline for the call has elapsed
  events          \* what the last slice of sendEmail passed to logger

vars == << envUser, envPass, to, pc, transporters, retryCount, sendRetryCount,
           probes, verifyCalls, sendCalls, verifyOks, verifyCodes, sendCodes,
           delay, sendDelay, verifyLog, sendLog, outcome, deadlinePassed, events >>

\* A retry loop driven by handleCloudEmailError (cloudEmailConfig.js:54-91)
VARIABLES
  hPc,            \* where the loop is: "off", "attempt", "wait" or "stopped"
  hMaxAttempts,   \* the loop's maxAttempts
  hAttempt,       \* number of the last attempt made, counted from 1 (0: none yet)
  hAllUnknown,    \* every failure so far had an unrecognised code
  hRes            \* the last classification: its inputs and what was returned

hvars == << hPc, hMaxAttempts, hAttempt, hAllUnknown, hRes >>

\* Several calls of sendEmail in one process
VARIABLES
  procEnvUser,      \* process.env.EMAIL_USER
  procEnvPass,      \* process.env.EMAIL_PASS
  cPc,              \* cPc[d]: where call d of sendEmail is
  cTo,              \* cTo[d]: options.to of call d
  cGateUser,        \* cGateUser[d]: the EMAIL_USER the credential gate of d tested
  cAuthUser,        \* cAuthUser[d]: auth.user of the transporter d built
  cFrom,            \* cFrom[d]: the address in mailOptions.from of d
  cRetryCount,      \* cRetryCount[d]: let retryCount of call d
  cSendRetryCount,  \* cSendRetryCount[d]: let sendRetryCount of call d
  cVerifyCalls,     \* cVerifyCalls[d]: transporter.verify calls d made
  cSendCalls,       \* cSendCalls[d]: transporter.sendMail calls d made
  inWindow          \* calls whose last sendMail was within the last rateDelta ms

cvars == << procEnvUser, procEnvPass, cPc, cTo, cGateUser, cAuthUser, cFrom,
            cRetryCount, cSendRetryCount, cVerifyCalls, cSendCalls, inWindow >>

\* Transport configuration, templates and the send* wrappers
VARIABLES
  useAltSmtp,     \* process.env.USE_ALTERNATIVE_SMTP
  clientUrl,      \* process.env.CLIENT_URL
  mConfig,        \* the config createTransporter gave nodemailer.createTransport
  mCloudConfig,   \* the config createCloudOptimizedTransporter gave it
  mWrapper,       \* the exported function the caller called
  mArgs,          \* its arguments after the recipient
  mOptions,       \* the options object sendEmail was called with
  mMail,          \* const mailOptions
  mSent,          \* the messages transporter.sendMail was called with
  mReturned,      \* what the caller of the wrapper got: "result" is sendMail's result
  render1,        \* a first render of a template
  render2         \* a second render of a template

mvars == << useAltSmtp, clientUrl, mConfig, mCloudConfig, mWrapper, mArgs, mOptions,
            mMail, mSent, mReturned, render1, render2 >>

NoConfig == [host |-> "none", port |-> 0, secure |-> FALSE, pool |-> FALSE,
             user |-> Undefined, pass |-> Undefined]
NoOptions == [to |-> Undefined, subject |-> Undefined, text |-> Undefined, html |-> Undefined]
NoMail == [from |-> Undefined, to |-> Undefined, subject |-> Undefined,
           text |-> Undefined, html |-> Undefined]
NoRender == [template |-> "none", args |-> << >>, url |-> Undefined,
             subject |-> << >>, html |-> << >>]

\* nothing built, rendered or called through a wrapper
MsgIdle ==
  /\ useAltSmtp = Undefined
  /\ clientUrl = Undefined
  /\ mConfig = NoConfig
  /\ mCloudConfig = NoConfig
  /\ mWrapper = "none"
  /\ mArgs = << >>
  /\ mOptions = NoOptions
  /\ mMail = NoMail
  /\ mSent = {}
  /\ mReturned = "none"
  /\ render1 = NoRender
  /\ render2 = NoRender

\* The activity tracker (middleware/activityTracker.js).  Time is kept as
\* ages in minutes: how long ago a Date was taken.
VARIABLES
  started,        \* startOfflineStatusUpdater has been called
  timer,          \* minutes since the interval timer was set or last fired
  lastAge,        \* lastAge[u]: age of the lastActivity stored for user u
  isOnline,       \* isOnline[u]: the isOnline stored for user u
  newestAge,      \* newestAge[u]: age of the newest activity date ever stored for u
  rPc,            \* rPc[r]: where request r is in trackActivity
  rUser,          \* rUser[r]: req.user.id (0: req.user is not set)
  rAge,           \* rAge[r]: age of the new Date() of line 15
  rNext,          \* rNext[r]: number of calls of next()
  sPc,            \* where markInactiveUsersOffline is
  sAge,           \* age of the Date.now() of line 36
  sTodo           \* documents updateMany has not come to yet

avars == << started, timer, lastAge, isOnline, newestAge, rPc, rUser, rAge, rNext,
            sPc, sAge, sTodo >>

Users == 1..NumUsers
Requests == 1..NumRequests

\* ages are counted up to the first value at which no comparison changes any more
AgeCap == staleAfter + MaxLatency + 1

older(age) == IF age < AgeCap THEN age + 1 ELSE AgeCap

\* no request, no sweep, no updater
ActIdle ==
  /\ started = FALSE
  /\ timer = 0
  /\ lastAge = [u \in Users |-> 0]
  /\ isOnline = [u \in Users |-> FALSE]
  /\ newestAge = [u \in Users |-> 0]
  /\ rPc = [r \in Requests |-> "idle"]
  /\ rUser = [r \in Requests |-> 0]
  /\ rAge = [r \in Requests |-> 0]
  /\ rNext = [r \in Requests |-> 0]
  /\ sPc = "idle"
  /\ sAge = 0
  /\ sTodo = {}

NoRes == [code |-> "none", attempt |-> 0, maxAttempts |-> 0,
          shouldRetry |-> FALSE, delay |-> 0]

\* no classifier loop is running
LoopIdle ==
  /\ hPc = "off"
  /\ hMaxAttempts = 0
  /\ hAttempt = 0
  /\ hAllUnknown = TRUE
  /\ hRes = NoRes

\* n calls of sendEmail are still to be made
CallsToCome(n) ==
  /\ cPc = [d \in 1..n |-> "idle"]
  /\ cTo = [d \in 1..n |-> Undefined]
  /\ cGateUser = [d \in 1..n |-> Undefined]
  /\ cAuthUser = [d \in 1..n |-> Undefined]
  /\ cFrom = [d \in 1..n |-> Undefined]
  /\ cRetryCount = [d \in 1..n |-> 0]
  /\ cSendRetryCount = [d \in 1..n |-> 0]
  /\ cVerifyCalls = [d \in 1..n |-> 0]
  /\ cSendCalls = [d \in 1..n |-> 0]
  /\ inWindow = {}

\* the process makes no concurrent calls
ConcIdle ==
  /\ procEnvUser = Undefined
  /\ procEnvPass = Undefined
  /\ CallsToCome(0)

NoLog == [probe |-> 0, attempt |-> 0, ok |-> FALSE]
NoOutcome == [kind |-> "none", msg |-> "none", code |-> "none"]
Result == [kind |-> "result", msg |-> "messageId", code |-> "none"]
ReturnedUndefined == [kind |-> "result", msg |-> "undefined", code |-> "none"]
Thrown(m, c) == [kind |-> "error", msg |-> m, code |-> c]

Init ==
  /\ envUser \in EnvUsers
  /\ envPass \in EnvPasses
  /\ to = Undefined
  /\ pc = "idle"
  /\ transporters = 0
  /\ retryCount = 0
  /\ sendRetryCount = 0
  /\ probes = {}
  /\ verifyCalls = 0
  /\ sendCalls = 0
  /\ verifyOks = 0
  /\ verifyCodes = {}
  /\ sendCodes = {}
  /\ delay = 0
  /\ sendDelay = 0
  /\ verifyLog = NoLog
  /\ sendLog = 0
  /\ outcome = NoOutcome
  /\ deadlinePassed = FALSE
  /\ events = {}
  /\ LoopIdle
  /\ ConcIdle
  /\ MsgIdle
  /\ ActIdle

\* no single call is followed
SingleIdle ==
  /\ envUser = Undefined
  /\ envPass = Undefined
  /\ to = Undefined
  /\ pc = "idle"
  /\ transporters = 0
  /\ retryCount = 0
  /\ sendRetryCount = 0
  /\ probes = {}
  /\ verifyCalls = 0
  /\ sendCalls = 0
  /\ verifyOks = 0
  /\ verifyCodes = {}
  /\ sendCodes = {}
  /\ delay = 0
  /\ sendDelay = 0
  /\ verifyLog = NoLog
  /\ sendLog = 0
  /\ outcome = NoOutcome
  /\ deadlinePassed = FALSE
  /\ events = {}

\* ------------------------------------------------------------ classifier
\* cloudEmailConfig.js:54-91: handleCloudEmailError(error, attempt, maxAttempts),
\* on error.code; any code without a case of its own takes the default

\* Variant: the exponential delay without its cap
timeoutCase_uncapped(isLastAttempt, attempt) ==
  [shouldRetry |-> ~isLastAttempt,
   message |-> IF isLastAttempt THEN "SMTP connection timeout"
                                ELSE "Connection timeout. Retrying",
   delay |-> cloudBaseDelay * pow2(attempt)]

\* lines 58-66: case 'ETIMEDOUT': case 'ECONNECTION':
timeoutCase(isLastAttempt, attempt) ==
  [shouldRetry |-> ~isLastAttempt,
   message |-> IF isLastAttempt THEN "SMTP connection timeout"
                                ELSE "Connection timeout. Retrying",
   delay |-> min(cloudBaseDelay * pow2(attempt), cloudMaxDelay)]

authCase_retried(isLastAttempt, attempt) ==
  [shouldRetry |-> ~isLastAttempt,
   message |-> "Gmail authentication failed",
   delay |-> 0]

\* lines 68-73: case 'EAUTH':
authCase(isLastAttempt, attempt) ==
  [shouldRetry |-> FALSE,
   message |-> "Gmail authentication failed",
   delay |-> 0]

\* lines 75-82: case 'EDNS':
dnsCase(isLastAttempt, attempt) ==
  [shouldRetry |-> ~isLastAttempt,
   message |-> IF isLastAttempt THEN "DNS resolution failed"
                                ELSE "DNS resolution failed. Retrying",
   delay |-> dnsDelay]

defaultCase_uncapped(isLastAttempt, attempt) ==
  [shouldRetry |-> ~isLastAttempt,
   message |-> "Email error",
   delay |-> unknownDelay]

\* lines 84-89: default:
defaultCase(isLastAttempt, attempt) ==
  [shouldRetry |-> ~isLastAttempt /\ attempt < unknownRetryCap,
   message |-> "Email error",
   delay |-> unknownDelay]

handleCloudEmailError(code, attempt, maxAttempts) ==
  LET isLastAttempt == attempt >= maxAttempts IN
  CASE code \in {"ETIMEDOUT", "ECONNECTION"} -> timeoutCase(isLastAttempt, attempt)
    [] code = "EAUTH" -> authCase(isLastAttempt, attempt)
    [] code = "EDNS" -> dnsCase(isLastAttempt, attempt)
    [] OTHER -> defaultCase(isLastAttempt, attempt)

\* ------------------------------------------------------------ transport profile
Flags == { Undefined, Str(<<"t", "r", "u", "e">>), Str(<<"f", "a", "l", "s", "e">>),
           Str(<<"T", "R", "U", "E">>), Str(<<"1">>) }

\* Variant: any non-empty flag selects the alternative profile
useAlternative_truthy(flag) == ~Falsy(flag)

\* emailService.js:38, cloudEmailConfig.js:48: process.env.USE_ALTERNATIVE_SMTP === 'true'
useAlternative(flag) == flag = Str(<<"t", "r", "u", "e">>)

\* emailService.js:7-48: the config createTransporter builds (host, port,
\* secure, pool and auth of it)
createTransporter(flag, user, pass) ==
  LET config == [host |-> "smtp.gmail.com", port |-> 587, secure |-> FALSE, pool |-> TRUE,
                 user |-> user, pass |-> pass]
  IN  IF useAlternative(flag)
        THEN [config EXCEPT !.host = "smtp.gmail.com", !.port = 465, !.secure = TRUE]
        ELSE config

\* cloudEmailConfig.js:6-26
primaryConfig(user, pass) ==
  [host |-> "smtp.gmail.com", port |-> 587, secure |-> FALSE, pool |-> TRUE,
   user |-> user, pass |-> pass]

\* Variant: an alternative profile on another relay
alternativeConfig_otherHost(user, pass) ==
  [host |-> "smtp-relay.gmail.com", port |-> 465, secure |-> TRUE, pool |-> FALSE,
   user |-> user, pass |-> pass]

\* cloudEmailConfig.js:29-45
alternativeConfig(user, pass) ==
  [host |-> "smtp.gmail.com", port |-> 465, secure |-> TRUE, pool |-> FALSE,
   user |-> user, pass |-> pass]

\* cloudEmailConfig.js:48-50
createCloudOptimizedTransporter(flag, user, pass) ==
  IF useAlternative(flag) THEN alternativeConfig(user, pass) ELSE primaryConfig(user, pass)

\* ------------------------------------------------------------ templates
\* A rendered text is a sequence of pieces: each literal stretch of the
\* template is one piece, an interpolated value gives its characters.
\* `${v}` of an undefined v gives the text "undefined".
interp(v) == IF v.defined THEN v.chars ELSE << "undefined" >>

\* emailService.js:204-219
welcome(firstName, userType, url) ==
  [subject |-> << "Welcome to Workie.lk!" >>,
   html |-> << "<h2>Welcome to Workie.lk, " >> \o interp(firstName)
            \o << "!</h2><p>Thank you for joining our platform as a " >> \o interp(userType)
            \o << ".</p><p>You can now " >>
            \o (IF userType = Str(<<"w", "o", "r", "k", "e", "r">>)
                  THEN << "browse and apply for jobs" >>
                  ELSE << "post jobs and find skilled workers" >>)
            \o << ".</p><a href=" >> \o interp(url) \o << ">Get Started</a>" >>]

\* emailService.js:222-240
passwordReset(firstName, resetToken, url) ==
  [subject |-> << "Password Reset Request - Workie.lk" >>,
   html |-> << "<h2>Password Reset Request</h2><p>Hi " >> \o interp(firstName)
            \o << ",</p><a href=" >> \o interp(url) \o << "/reset-password/" >>
            \o interp(resetToken) \o << ">Reset Password</a>" >>]

\* emailService.js:242-259
jobApplication(clientName, workerName, jobTitle, url) ==
  [subject |-> << "New Application for " >> \o interp(jobTitle),
   html |-> << "<p>Hi " >> \o interp(clientName) \o << ",</p><strong>" >>
            \o interp(workerName) \o << "</strong> has applied for your job: " >>
            \o interp(jobTitle) \o << "<a href=" >> \o interp(url) \o << "/jobs>" >>]

\* emailService.js:261-279
applicationAccepted(workerName, jobTitle, clientName, url) ==
  [subject |-> << "Application Accepted - " >> \o interp(jobTitle),
   html |-> << "<p>Hi " >> \o interp(workerName) \o << ",</p>" >> \o interp(jobTitle)
            \o << "<p>Client: " >> \o interp(clientName)
            \o << "</p><a href=" >> \o interp(url) \o << "/jobs>" >>]

\* emailService.js:281-298
jobCompleted(recipientName, jobTitle, isClient, url) ==
  [subject |-> << "Job Completed - " >> \o interp(jobTitle),
   html |-> << "<p>Hi " >> \o interp(recipientName) \o << ",</p><p>The job " >>
            \o interp(jobTitle) \o << " has been marked as completed.</p>" >>
            \o (IF Falsy(isClient) THEN << "Thank you for completing the job!" >>
                                   ELSE << "Please review the work" >>)
            \o << "<a href=" >> \o interp(url) \o << "/jobs>" >>
            \o (IF Falsy(isClient) THEN << "View Job" >> ELSE << "Leave Review" >>)]

\* emailService.js:300-316
reviewReceived(recipientName, reviewerName, rating, jobTitle, url) ==
  [subject |-> << "New Review Received - " >> \o interp(rating) \o << " Stars" >>,
   html |-> << "<p>Hi " >> \o interp(recipientName) \o << ",</p><strong>" >>
            \o interp(reviewerName) \o << "</strong> left you a review for the job " >>
            \o interp(jobTitle) \o << "<p>Rating: " >>
            \o (IF rating.defined THEN << "stars x" >> \o rating.chars ELSE << >>)
            \o << " (" >> \o interp(rating) \o << "/5)</p><a href=" >>
            \o interp(url) \o << "/profile>" >>]

\* emailService.js:319-334
emailVerificationCode(firstName, code, url) ==
  [subject |-> << "Verify Your Email - Workie.lk" >>,
   html |-> << "<h2>Welcome to Workie.lk, " >> \o interp(firstName)
            \o << "!</h2><p>Please verify your email address using the code below:</p>" >>
            \o interp(code) \o << "<p>This code will expire in 10 minutes.</p>" >>]

\* Variant: the PIN template with a link to the client
passwordResetPin_linked(firstName, pin, url) ==
  [subject |-> << "Password Reset PIN", " - Workie.lk" >>,
   html |-> << "<h2>Password Reset Request</h2><p>Hi " >> \o interp(firstName)
            \o << ",</p><p>Please use the PIN below to verify your identity:</p>" >>
            \o interp(pin) \o << "<a href=" >> \o interp(url) \o << ">" >>]

\* emailService.js:337-353
passwordResetPin(firstName, pin, url) ==
  [subject |-> << "Password Reset PIN", " - Workie.lk" >>,
   html |-> << "<h2>Password Reset Request</h2><p>Hi " >> \o interp(firstName)
            \o << ",</p><p>Please use the PIN below to verify your identity:</p>" >>
            \o interp(pin) \o << "<p>This PIN will expire in 10 minutes.</p>" >>]

Templates == { "welcome", "passwordReset", "jobApplication", "applicationAccepted",
               "jobCompleted", "reviewReceived", "emailVerificationCode",
               "passwordResetPin" }

\* number of parameters of each template
arity(name) ==
  CASE name \in {"jobApplication", "applicationAccepted", "jobCompleted"} -> 3
    [] name = "reviewReceived" -> 4
    [] OTHER -> 2

\* emailService.js:202-354: emailTemplates[name](...args), rendered while
\* process.env.CLIENT_URL is url
emailTemplates(name, args, url) ==
  CASE name = "welcome" -> welcome(args[1], args[2], url)
    [] name = "passwordReset" -> passwordReset(args[1], args[2], url)
    [] name = "jobApplication" -> jobApplication(args[1], args[2], args[3], url)
    [] name = "applicationAccepted" -> applicationAccepted(args[1], args[2], args[3], url)
    [] name = "jobCompleted" -> jobCompleted(args[1], args[2], args[3], url)
    [] name = "reviewReceived" -> reviewReceived(args[1], args[2], args[3], args[4], url)
    [] name = "emailVerificationCode" -> emailVerificationCode(args[1], args[2], url)
    [] name = "passwordResetPin" -> passwordResetPin(args[1], args[2], url)

\* the argument tried at each position: a first name, a PIN or code, ...
ArgValue == << Str(<<"A">>), Str(<<"6", "7">>), Str(<<"C">>), Str(<<"4">>) >>

\* argument tuples of length n: each argument given or undefined
ArgTuples(n) ==
  { [i \in 1..n |-> IF b[i] THEN ArgValue[i] ELSE Undefined] : b \in [1..n -> BOOLEAN] }

ClientUrls == { Str(<<"x">>), Str(<<"y">>) }

\* ------------------------------------------------------------ gates
\* Variant: only EMAIL_USER is tested
credentialsMissing_userOnly(u, p) == Falsy(u)

\* emailService.js:55  !process.env.EMAIL_USER || !process.env.EMAIL_PASS
credentialsMissing(u, p) == Falsy(u) \/ Falsy(p)

\* Variant: only the emptiness of the recipient is tested
recipientInvalid_emptyOnly(t) == Falsy(t)

\* emailService.js:60  !options.to || !options.to.includes('@')
recipientInvalid(t) == Falsy(t) \/ ~includes(t, "@")

\* ------------------------------------------------------------ verification loop
\* emailService.js:71  while (retryCount < maxRetries)
verifyLoopRuns(rc) == rc < maxRetries

\* Variant: the exhaustion test written with > instead of >=
verifyGivesUp_strict(rc) == rc > maxRetries

\* Variant: the exhaustion test one attempt early
verifyGivesUp_early(rc) == rc >= maxRetries - 1

\* emailService.js:123  if (retryCount >= maxRetries) ... throw verifyError
verifyGivesUp(rc) == rc >= maxRetries

\* Variant: the backoff without its cap
backoffDelay_uncapped(rc, jitter) == baseDelay * pow2(rc) + jitter

\* Variant: the exponent counted from 0 (the delay computed before retryCount++)
backoffDelay_zeroBased(rc, jitter) == min(baseDelay * pow2(rc - 1) + jitter, maxDelay)

\* emailService.js:133  Math.min(baseDelay * Math.pow(2, retryCount) + Math.random() * 1000, 30000)
backoffDelay(rc, jitter) == min(baseDelay * pow2(rc) + jitter, maxDelay)

\* Variant: the retry announcement is chosen on every attempt
verifyMessage_alwaysRetrying(code, rc) ==
  CASE code = "EAUTH" -> "Gmail authentication failed"
    [] code \in {"ECONNECTION", "ETIMEDOUT"} ->
         IF rc < maxRetries
           THEN "SMTP connection failed. Retrying"
           ELSE "SMTP connection persistently failing"
    [] code = "EDNS" -> "DNS resolution failed"
    [] OTHER -> "Email server connection failed"

\* emailService.js:98-110: the message of the Error the verify callback rejects with
verifyMessage(code, rc) ==
  CASE code = "EAUTH" -> "Gmail authentication failed"
    [] code \in {"ECONNECTION", "ETIMEDOUT"} ->
         IF rc < maxRetries - 1
           THEN "SMTP connection failed. Retrying"
           ELSE "SMTP connection persistently failing"
    [] code = "EDNS" -> "DNS resolution failed"
    [] OTHER -> "Email server connection failed"

\* emailService.js:75: the message of the Error the 20 s timer rejects with
timeoutMessage == "Verification timeout"

\* A call of logger.info / warn / error: its message, and the attempt number
\* and total of attempts it carries in its message or metadata (0: none)
Event(m, a, t) == [msg |-> m, attempt |-> a, total |-> t]

\* emailService.js:189-196: logger.error of the outer catch
failedEvent == Event("Email sending failed", 0, 0)

\* emailService.js:82-95, 112-115: what the verify callback logs
callbackEvent(err, rc) ==
  IF err = "ok"
    THEN Event("Email server ready to send messages", rc + 1, maxRetries)
    ELSE Event("Transporter verification error", rc + 1, maxRetries)

\* Variant: a catch block that logs nothing
catchEvents_silent(rc) == {}

\* emailService.js:123-137: what the verification catch logs, rc being
\* retryCount after its increment
catchEvents(rc) ==
  IF verifyGivesUp(rc)
    THEN { Event("All SMTP verification attempts failed", 0, maxRetries), failedEvent }
    ELSE { Event("Retrying SMTP verification", rc + 1, maxRetries) }

\* emailService.js:73-78: one loop iteration up to its await: a new promise,
\* its timer armed, transporter.verify called
IssueProbe ==
  /\ verifyCalls' = verifyCalls + 1
  /\ probes' = probes \cup {verifyCalls + 1}
  /\ pc' = "verify"

\* emailService.js:162: transporter.sendMail called, the function awaits it
IssueSend ==
  /\ sendCalls' = sendCalls + 1
  /\ pc' = "send"

\* emailService.js:187-188: the send loop ends without a return: the async
\* function resolves with undefined
FallOffEnd ==
  /\ pc' = "done"
  /\ outcome' = ReturnedUndefined

\* Variant: the send loop condition one attempt short
sendLoopRuns_short(src) == src < maxSendRetries - 1

\* emailService.js:160  while (sendRetryCount < maxSendRetries)
sendLoopRuns(src) == src < maxSendRetries

\* emailService.js:160-162: the head of the send loop
SendLoop ==
  IF sendLoopRuns(sendRetryCount)
    THEN IssueSend /\ UNCHANGED outcome
    ELSE FallOffEnd /\ UNCHANGED sendCalls

\* emailService.js:188-198: the outer catch logs and rethrows
Throw(m, c) ==
  /\ pc' = "failed"
  /\ outcome' = Thrown(m, c)

\* Variant: the catch block without retryCount++
VerifyCatch_noCount(msg, code) ==
  /\ retryCount' = retryCount
  /\ verifyCodes' = verifyCodes \cup {code}
  /\ \E j \in JitterSamples : delay' = backoffDelay(retryCount + 1, j)
  /\ pc' = "verifyWait"
  /\ UNCHANGED outcome

\* emailService.js:121-139: catch (verifyError)
VerifyCatch(msg, code) ==
  /\ retryCount' = retryCount + 1
  /\ verifyCodes' = verifyCodes \cup {code}
  /\ IF verifyGivesUp(retryCount + 1)
       THEN /\ Throw(msg, "none")
            /\ UNCHANGED delay
       ELSE /\ \E j \in JitterSamples : delay' = backoffDelay(retryCount + 1, j)
            /\ pc' = "verifyWait"
            /\ UNCHANGED outcome

\* emailService.js:52-78: the call, up to the first await
Call(t) ==
  /\ pc = "idle"
  /\ to' = t
  /\ IF credentialsMissing(envUser, envPass)
       THEN /\ Throw("Email configuration missing", "none")
            /\ UNCHANGED << transporters, verifyCalls, probes >>
       ELSE IF recipientInvalid(t)
         THEN /\ Throw("Invalid recipient email address", "none")
              /\ UNCHANGED << transporters, verifyCalls, probes >>
         ELSE /\ transporters' = transporters + 1
              /\ IssueProbe
              /\ UNCHANGED outcome
  /\ events' = IF credentialsMissing(envUser, envPass) \/ recipientInvalid(t)
                 THEN { failedEvent } ELSE {}
  /\ UNCHANGED << envUser, envPass, retryCount, sendRetryCount, sendCalls, verifyOks,
                  verifyCodes, sendCodes, delay, sendDelay, verifyLog, sendLog,
                  deadlinePassed >>

\* Variant: a callback settles whatever the function is doing, whichever
\* probe it belongs to
Pending_stale(p) == pc \in {"verify", "verifyWait", "send", "sendWait"}

\* The promise of probe p is still pending: p is the probe of the iteration
\* the function is suspended in, and neither callback nor timer has settled it.
Pending(p) == pc = "verify" /\ p = verifyCalls

\* emailService.js:78-118: the transport calls back for probe p, with an
\* error code or with success ("ok").  resolve and reject are no-ops on a
\* promise the timer has already rejected; the logging is not.
VerifyCallback(p, err) ==
  /\ p \in probes
  /\ verifyLog' = [probe |-> p, attempt |-> retryCount + 1, ok |-> (err = "ok")]
  /\ IF Pending(p)
       THEN /\ probes' = probes \ {p}
            /\ IF err = "ok"
                 THEN /\ verifyOks' = verifyOks + 1
                      /\ SendLoop
                      /\ UNCHANGED << retryCount, verifyCodes, delay >>
                 ELSE /\ VerifyCatch(verifyMessage(err, retryCount), err)
                      /\ UNCHANGED << verifyOks, sendCalls >>
       ELSE /\ probes' = probes \ {p}
            /\ UNCHANGED << pc, retryCount, verifyCodes, delay, outcome, verifyOks,
                            sendCalls >>
  /\ events' = { callbackEvent(err, retryCount) }
                 \cup (IF Pending(p) /\ err # "ok" THEN catchEvents(retryCount') ELSE {})
  /\ UNCHANGED << envUser, envPass, to, transporters, sendRetryCount, verifyCalls,
                  sendCodes, sendDelay, sendLog, deadlinePassed >>

\* emailService.js:74-76: the 20 s timer fires before the callback of the
\* pending probe; the probe stays in flight
VerifyTimeout ==
  /\ pc = "verify"
  /\ VerifyCatch(timeoutMessage, "TIMEOUT")
  /\ events' = catchEvents(retryCount')
  /\ UNCHANGED << envUser, envPass, to, transporters, sendRetryCount, probes,
                  verifyCalls, sendCalls, verifyOks, sendCodes, sendDelay, verifyLog,
                  sendLog, deadlinePassed >>

\* Variant: the backoff timer's continuation tests a deadline before going round
VerifyRetry_cancellable ==
  /\ pc = "verifyWait"
  /\ IF deadlinePassed
       THEN Throw("Cancelled", "none") /\ UNCHANGED << verifyCalls, probes >>
       ELSE IssueProbe /\ UNCHANGED outcome
  /\ events' = IF deadlinePassed THEN { failedEvent } ELSE {}
  /\ UNCHANGED << envUser, envPass, to, transporters, retryCount, sendRetryCount,
                  sendCalls, verifyOks, verifyCodes, sendCodes, delay, sendDelay,
                  verifyLog, sendLog, deadlinePassed >>

\* emailService.js:138 then 71-78: the backoff timer fires, the loop goes round;
\* were its condition false, the function would go on to lines 142-162
VerifyRetry ==
  /\ pc = "verifyWait"
  /\ IF verifyLoopRuns(retryCount)
       THEN IssueProbe /\ UNCHANGED << sendCalls, outcome >>
       ELSE SendLoop /\ UNCHANGED << verifyCalls, probes >>
  /\ events' = {}
  /\ UNCHANGED << envUser, envPass, to, transporters, retryCount, sendRetryCount,
                  verifyOks, verifyCodes, sendCodes, delay, sendDelay,
                  verifyLog, sendLog, deadlinePassed >>

\* ------------------------------------------------------------ send loop
\* Variant: the exhaustion test written with > instead of >=
sendGivesUp_strict(src) == src > maxSendRetries

\* emailService.js:180  if (sendRetryCount >= maxSendRetries) throw sendError
sendGivesUp(src) == src >= maxSendRetries

\* Variant: the exponent counted from 0 (the wait computed before sendRetryCount++)
sendBackoff_zeroBased(src) == sendBaseDelay * pow2(src - 1)

\* emailService.js:185  1000 * Math.pow(2, sendRetryCount)
sendBackoff(src) == sendBaseDelay * pow2(src)

\* emailService.js:163-169: logger.info of a successful send
sentEvent(src) == Event("Email sent successfully", src + 1, 0)

\* emailService.js:173-178, 189: what a failed send logs, src being
\* sendRetryCount after its increment
sendFailedEvents(src) ==
  { Event("Email send attempt failed", src, maxSendRetries) }
    \cup (IF sendGivesUp(src) THEN { failedEvent } ELSE {})

\* emailService.js:162-170: sendMail resolves; the result is returned
SendSucceeds ==
  /\ pc = "send"
  /\ sendLog' = sendRetryCount + 1
  /\ events' = { sentEvent(sendRetryCount) }
  /\ outcome' = Result
  /\ pc' = "done"
  /\ UNCHANGED << envUser, envPass, to, transporters, retryCount, sendRetryCount,
                  probes, verifyCalls, sendCalls, verifyOks, verifyCodes, sendCodes,
                  delay, sendDelay, verifyLog, deadlinePassed >>

\* emailService.js:171-186: sendMail rejects with an error of the given code
SendFails(code) ==
  /\ pc = "send"
  /\ sendRetryCount' = sendRetryCount + 1
  /\ sendLog' = sendRetryCount + 1
  /\ events' = sendFailedEvents(sendRetryCount')
  /\ sendCodes' = sendCodes \cup {code}
  /\ IF sendGivesUp(sendRetryCount + 1)
       THEN /\ Throw("sendError", code)
            /\ UNCHANGED sendDelay
       ELSE /\ sendDelay' = sendBackoff(sendRetryCount + 1)
            /\ pc' = "sendWait"
            /\ UNCHANGED outcome
  /\ UNCHANGED << envUser, envPass, to, transporters, retryCount, probes, verifyCalls,
                  sendCalls, verifyOks, verifyCodes, delay, verifyLog, deadlinePassed >>

\* Variant: a failed send falls back to verifying the transport again
SendRetry_reverify ==
  /\ pc = "sendWait"
  /\ IssueProbe
  /\ events' = {}
  /\ UNCHANGED << envUser, envPass, to, transporters, retryCount, sendRetryCount,
                  sendCalls, verifyOks, verifyCodes, sendCodes, delay, sendDelay,
                  verifyLog, sendLog, outcome, deadlinePassed >>

\* emailService.js:185 then 160-162: the backoff timer fires, the loop goes round
SendRetry ==
  /\ pc = "sendWait"
  /\ SendLoop
  /\ events' = {}
  /\ UNCHANGED << envUser, envPass, to, transporters, retryCount, sendRetryCount,
                  probes, verifyCalls, verifyOks, verifyCodes, sendCodes, delay,
                  sendDelay, verifyLog, sendLog, deadlinePassed >>

\* ------------------------------------------------------------ environment
InFlight == pc \in {"verify", "verifyWait", "send", "sendWait"}

\* The caller's own deadline for the call elapses.  sendEmail takes no
\* deadline or cancellation argument (emailService.js:52), so nothing of the
\* function reads it.
DeadlineElapses ==
  /\ InFlight
  /\ ~deadlinePassed
  /\ deadlinePassed' = TRUE
  /\ UNCHANGED << envUser, envPass, to, pc, transporters, retryCount, sendRetryCount,
                  probes, verifyCalls, sendCalls, verifyOks, verifyCodes, sendCodes,
                  delay, sendDelay, verifyLog, sendLog, outcome, events >>

Next ==
  \/ \E t \in Recipients : Call(t) /\ UNCHANGED << hvars, cvars, mvars, avars >>
  \/ \E p \in 1..maxRetries, err \in VerifyCodes \cup {"ok"} :
        VerifyCallback(p, err) /\ UNCHANGED << hvars, cvars, mvars, avars >>
  \/ VerifyTimeout /\ UNCHANGED << hvars, cvars, mvars, avars >>
  \/ VerifyRetry /\ UNCHANGED << hvars, cvars, mvars, avars >>
  \/ SendSucceeds /\ UNCHANGED << hvars, cvars, mvars, avars >>
  \/ \E c \in SendCodes : SendFails(c) /\ UNCHANGED << hvars, cvars, mvars, avars >>
  \/ SendRetry /\ UNCHANGED << hvars, cvars, mvars, avars >>
  \/ DeadlineElapses /\ UNCHANGED << hvars, cvars, mvars, avars >>

Spec == Init /\ [][Next]_vars

\* Timers armed with setTimeout fire (emailService.js:74, 138, 185), and a
\* pending transporter.sendMail settles; a pending transporter.verify need
\* not call back, its 20 s timer answers for it.
Fairness ==
  /\ WF_vars(VerifyTimeout)
  /\ WF_vars(VerifyRetry)
  /\ WF_vars(SendRetry)
  /\ WF_vars(SendSucceeds \/ \E c \in SendCodes : SendFails(c))

FairSpec == Spec /\ Fairness

\* ------------------------------------------------------------ classifier loop
\* A caller's retry loop that asks handleCloudEmailError after each failed
\* attempt and retries exactly when it answers shouldRetry.  attempt is the
\* number of the attempt that failed, counted from 1.
LoopCodes == VerifyCodes

Classified(c, a, m) ==
  LET r == handleCloudEmailError(c, a, m) IN
  [code |-> c, attempt |-> a, maxAttempts |-> m,
   shouldRetry |-> r.shouldRetry, delay |-> r.delay]

\* cloudEmailConfig.js:58-59, 68, 75: the case labels
hasOwnCase(c) == c \in {"ETIMEDOUT", "ECONNECTION", "EAUTH", "EDNS"}

\* either a loop about to make its first attempt, or ("off") a process that
\* calls the classifier on its own
LoopInit ==
  /\ hPc \in {"attempt", "off"}
  /\ hMaxAttempts \in 1..MaxAttemptsBound
  /\ hAttempt = 0
  /\ hAllUnknown = TRUE
  /\ hRes = NoRes
  /\ SingleIdle
  /\ ConcIdle
  /\ MsgIdle
  /\ ActIdle

AttemptFails(c) ==
  /\ hPc = "attempt"
  /\ hAttempt' = hAttempt + 1
  /\ hRes' = Classified(c, hAttempt', hMaxAttempts)
  /\ hAllUnknown' = (hAllUnknown /\ ~hasOwnCase(c))
  /\ hPc' = IF hRes'.shouldRetry THEN "wait" ELSE "stopped"
  /\ UNCHANGED hMaxAttempts

AttemptSucceeds ==
  /\ hPc = "attempt"
  /\ hAttempt' = hAttempt + 1
  /\ hPc' = "stopped"
  /\ UNCHANGED << hMaxAttempts, hAllUnknown, hRes >>

LoopWaitEnds ==
  /\ hPc = "wait"
  /\ hPc' = "attempt"
  /\ UNCHANGED << hMaxAttempts, hAttempt, hAllUnknown, hRes >>

\* handleCloudEmailError called on its own, with any attempt number
Classify(c, a, m) ==
  /\ hPc = "off"
  /\ hRes' = Classified(c, a, m)
  /\ UNCHANGED << hPc, hMaxAttempts, hAttempt, hAllUnknown >>

LoopNext ==
  \/ \E c \in LoopCodes : AttemptFails(c) /\ UNCHANGED << vars, cvars, mvars, avars >>
  \/ AttemptSucceeds /\ UNCHANGED << vars, cvars, mvars, avars >>
  \/ LoopWaitEnds /\ UNCHANGED << vars, cvars, mvars, avars >>
  \/ \E c \in LoopCodes, a \in 1..(MaxAttemptsBound + 1), m \in 1..MaxAttemptsBound :
        Classify(c, a, m) /\ UNCHANGED << vars, cvars, mvars, avars >>

LoopSpec == LoopInit /\ [][LoopNext]_hvars

\* ------------------------------------------------------------ concurrent calls
\* Several calls of sendEmail in one Node.js process.  Each call has its own
\* locals (emailService.js:64, 67-69, 142, 157-158); process.env is the one
\* thing they share.  A step is one run-to-completion slice of one call.  A
\* failed verification stands for an error callback or the 20 s timer alike.
Calls == DOMAIN cPc

ConcRecipients == { Str(<<"n", "o">>), Str(<<"a", "@", "b">>) }
ProcUsers == EnvUsers \cup { Str(<<"v">>) }

Delivering(d) == cPc[d] \in {"verify", "verifyWait", "send", "sendWait", "done"}

CallOf_sharedCounter(d, t) ==
  /\ cPc[d] = "idle"
  /\ cTo' = [cTo EXCEPT ![d] = t]
  /\ cGateUser' = [cGateUser EXCEPT ![d] = procEnvUser]
  /\ IF credentialsMissing(procEnvUser, procEnvPass)
       THEN /\ cPc' = [cPc EXCEPT ![d] = "failedConfig"]
            /\ UNCHANGED << cAuthUser, cRetryCount, cVerifyCalls >>
       ELSE IF recipientInvalid(t)
       THEN /\ cPc' = [cPc EXCEPT ![d] = "failedRecipient"]
            /\ UNCHANGED << cAuthUser, cRetryCount, cVerifyCalls >>
       ELSE /\ cAuthUser' = [cAuthUser EXCEPT ![d] = procEnvUser]
            /\ cRetryCount' = [cRetryCount EXCEPT ![d] =
                                 CHOOSE m \in 0..maxRetries :
                                   /\ \E e \in Calls : cRetryCount[e] = m
                                   /\ \A e \in Calls : cRetryCount[e] <= m]
            /\ cVerifyCalls' = [cVerifyCalls EXCEPT ![d] = @ + 1]
            /\ cPc' = [cPc EXCEPT ![d] = "verify"]
  /\ UNCHANGED << procEnvUser, procEnvPass, cFrom, cSendRetryCount, cSendCalls, inWindow >>

CallOf_coalesced(d, t) ==
  /\ cPc[d] = "idle"
  /\ cTo' = [cTo EXCEPT ![d] = t]
  /\ cGateUser' = [cGateUser EXCEPT ![d] = procEnvUser]
  /\ IF credentialsMissing(procEnvUser, procEnvPass)
       THEN /\ cPc' = [cPc EXCEPT ![d] = "failedConfig"]
            /\ UNCHANGED << cAuthUser, cRetryCount, cVerifyCalls >>
       ELSE IF recipientInvalid(t)
       THEN /\ cPc' = [cPc EXCEPT ![d] = "failedRecipient"]
            /\ UNCHANGED << cAuthUser, cRetryCount, cVerifyCalls >>
       ELSE IF \E e \in Calls \ {d} : cTo[e] = t /\ Delivering(e)
       THEN /\ cPc' = [cPc EXCEPT ![d] = "done"]
            /\ UNCHANGED << cAuthUser, cRetryCount, cVerifyCalls >>
       ELSE /\ cAuthUser' = [cAuthUser EXCEPT ![d] = procEnvUser]
            /\ cRetryCount' = [cRetryCount EXCEPT ![d] = 0]
            /\ cVerifyCalls' = [cVerifyCalls EXCEPT ![d] = @ + 1]
            /\ cPc' = [cPc EXCEPT ![d] = "verify"]
  /\ UNCHANGED << procEnvUser, procEnvPass, cFrom, cSendRetryCount, cSendCalls, inWindow >>

\* emailService.js:52-71: sendEmail(options) up to the first await.  The
\* gate (line 55) and createTransporter (lines 12-13, called at line 64) read
\* process.env in the same slice; retryCount starts at 0 (line 67).
CallOf(d, t) ==
  /\ cPc[d] = "idle"
  /\ cTo' = [cTo EXCEPT ![d] = t]
  /\ cGateUser' = [cGateUser EXCEPT ![d] = procEnvUser]
  /\ IF credentialsMissing(procEnvUser, procEnvPass)
       THEN /\ cPc' = [cPc EXCEPT ![d] = "failedConfig"]
            /\ UNCHANGED << cAuthUser, cRetryCount, cVerifyCalls >>
       ELSE IF recipientInvalid(t)
       THEN /\ cPc' = [cPc EXCEPT ![d] = "failedRecipient"]
            /\ UNCHANGED << cAuthUser, cRetryCount, cVerifyCalls >>
       ELSE /\ cAuthUser' = [cAuthUser EXCEPT ![d] = procEnvUser]
            /\ cRetryCount' = [cRetryCount EXCEPT ![d] = 0]
            /\ cVerifyCalls' = [cVerifyCalls EXCEPT ![d] = @ + 1]
            /\ cPc' = [cPc EXCEPT ![d] = "verify"]
  /\ UNCHANGED << procEnvUser, procEnvPass, cFrom, cSendRetryCount, cSendCalls, inWindow >>

VerifyOkOf_blocked(d) ==
  /\ cPc[d] = "verify"
  /\ \A e \in Calls \ {d} : cPc[e] \notin {"verifyWait", "sendWait"}
  /\ cFrom' = [cFrom EXCEPT ![d] = procEnvUser]
  /\ cSendRetryCount' = [cSendRetryCount EXCEPT ![d] = 0]
  /\ cSendCalls' = [cSendCalls EXCEPT ![d] = @ + 1]
  /\ inWindow' = inWindow \cup {d}
  /\ cPc' = [cPc EXCEPT ![d] = "send"]
  /\ UNCHANGED << procEnvUser, procEnvPass, cTo, cGateUser, cAuthUser,
                  cRetryCount, cVerifyCalls >>

\* emailService.js:78-90, 142-162: verification resolves; mailOptions is
\* built, its from reading process.env.EMAIL_USER again (line 143);
\* sendRetryCount starts at 0 (line 157) and the message goes to sendMail
VerifyOkOf(d) ==
  /\ cPc[d] = "verify"
  /\ cFrom' = [cFrom EXCEPT ![d] = procEnvUser]
  /\ cSendRetryCount' = [cSendRetryCount EXCEPT ![d] = 0]
  /\ cSendCalls' = [cSendCalls EXCEPT ![d] = @ + 1]
  /\ inWindow' = inWindow \cup {d}
  /\ cPc' = [cPc EXCEPT ![d] = "send"]
  /\ UNCHANGED << procEnvUser, procEnvPass, cTo, cGateUser, cAuthUser,
                  cRetryCount, cVerifyCalls >>

\* emailService.js:121-139: the catch of the verification loop
VerifyFailsOf(d) ==
  /\ cPc[d] = "verify"
  /\ cRetryCount' = [cRetryCount EXCEPT ![d] = @ + 1]
  /\ cPc' = [cPc EXCEPT ![d] =
               IF verifyGivesUp(cRetryCount'[d]) THEN "failedVerify" ELSE "verifyWait"]
  /\ UNCHANGED << procEnvUser, procEnvPass, cTo, cGateUser, cAuthUser, cFrom,
                  cSendRetryCount, cVerifyCalls, cSendCalls, inWindow >>

\* emailService.js:138, 71-76: the backoff timer fires, next verify attempt
VerifyRetryOf(d) ==
  /\ cPc[d] = "verifyWait"
  /\ verifyLoopRuns(cRetryCount[d])
  /\ cVerifyCalls' = [cVerifyCalls EXCEPT ![d] = @ + 1]
  /\ cPc' = [cPc EXCEPT ![d] = "verify"]
  /\ UNCHANGED << procEnvUser, procEnvPass, cTo, cGateUser, cAuthUser, cFrom,
                  cRetryCount, cSendRetryCount, cSendCalls, inWindow >>

\* emailService.js:162-170: sendMail resolves
SendSucceedsOf(d) ==
  /\ cPc[d] = "send"
  /\ cPc' = [cPc EXCEPT ![d] = "done"]
  /\ UNCHANGED << procEnvUser, procEnvPass, cTo, cGateUser, cAuthUser, cFrom,
                  cRetryCount, cSendRetryCount, cVerifyCalls, cSendCalls, inWindow >>

\* emailService.js:171-186: the catch of the send loop
SendFailsOf(d) ==
  /\ cPc[d] = "send"
  /\ cSendRetryCount' = [cSendRetryCount EXCEPT ![d] = @ + 1]
  /\ cPc' = [cPc EXCEPT ![d] =
               IF sendGivesUp(cSendRetryCount'[d]) THEN "failedSend" ELSE "sendWait"]
  /\ UNCHANGED << procEnvUser, procEnvPass, cTo, cGateUser, cAuthUser, cFrom,
                  cRetryCount, cVerifyCalls, cSendCalls, inWindow >>

\* emailService.js:185, 160-162: the send backoff timer fires and the same
\* mailOptions goes to sendMail again.  The wait was 2000 ms (rateDelta,
\* line 27) at least, so the call's earlier message has left the window.
SendRetryOf(d) ==
  /\ cPc[d] = "sendWait"
  /\ sendLoopRuns(cSendRetryCount[d])
  /\ cSendCalls' = [cSendCalls EXCEPT ![d] = @ + 1]
  /\ inWindow' = (inWindow \ {d}) \cup {d}
  /\ cPc' = [cPc EXCEPT ![d] = "send"]
  /\ UNCHANGED << procEnvUser, procEnvPass, cTo, cGateUser, cAuthUser, cFrom,
                  cRetryCount, cSendRetryCount, cVerifyCalls >>

\* another task of the process sets EMAIL_USER or EMAIL_PASS
EnvChanges(u, p) ==
  /\ << u, p >> # << procEnvUser, procEnvPass >>
  /\ procEnvUser' = u
  /\ procEnvPass' = p
  /\ UNCHANGED << cPc, cTo, cGateUser, cAuthUser, cFrom, cRetryCount,
                  cSendRetryCount, cVerifyCalls, cSendCalls, inWindow >>

\* 2000 ms (rateDelta, line 27) have gone by since call d handed its message over
WindowSlides(d) ==
  /\ d \in inWindow
  /\ inWindow' = inWindow \ {d}
  /\ UNCHANGED << procEnvUser, procEnvPass, cPc, cTo, cGateUser, cAuthUser, cFrom,
                  cRetryCount, cSendRetryCount, cVerifyCalls, cSendCalls >>

\* emailService.js:24, 64, 162-170: the transports still holding a connection.
\* Each call that passes the gates builds its own transport (line 64); with
\* pool: true the connection that delivered a message is kept for reuse, and
\* no line of sendEmail calls transporter.close().
OpenTransports ==
  { d \in Calls : cPc[d] = "done"
                  /\ createTransporter(useAltSmtp, procEnvUser, procEnvPass).pool }

\* NumDispatches calls, any interleaving, any transport answers
ConcInit ==
  /\ procEnvUser \in EnvUsers
  /\ procEnvPass \in EnvPasses
  /\ CallsToCome(NumDispatches)
  /\ SingleIdle
  /\ LoopIdle
  /\ MsgIdle
  /\ ActIdle

ConcNext ==
  \/ \E d \in Calls, t \in ConcRecipients : CallOf(d, t) /\ UNCHANGED << vars, hvars, mvars, avars >>
  \/ \E d \in Calls : VerifyOkOf(d) /\ UNCHANGED << vars, hvars, mvars, avars >>
  \/ \E d \in Calls : VerifyFailsOf(d) /\ UNCHANGED << vars, hvars, mvars, avars >>
  \/ \E d \in Calls : VerifyRetryOf(d) /\ UNCHANGED << vars, hvars, mvars, avars >>
  \/ \E d \in Calls : SendSucceedsOf(d) /\ UNCHANGED << vars, hvars, mvars, avars >>
  \/ \E d \in Calls : SendFailsOf(d) /\ UNCHANGED << vars, hvars, mvars, avars >>
  \/ \E d \in Calls : SendRetryOf(d) /\ UNCHANGED << vars, hvars, mvars, avars >>

ConcSpec == ConcInit /\ [][ConcNext]_cvars

\* one call, while another task changes the process configuration
RotateInit ==
  /\ procEnvUser \in ProcUsers
  /\ procEnvPass \in EnvPasses
  /\ CallsToCome(1)
  /\ SingleIdle
  /\ LoopIdle
  /\ MsgIdle
  /\ ActIdle

RotateNext ==
  \/ ConcNext
  \/ \E u \in ProcUsers, p \in EnvPasses : EnvChanges(u, p) /\ UNCHANGED << vars, hvars, mvars, avars >>

RotateSpec == RotateInit /\ [][RotateNext]_cvars

\* RateDispatches calls against a transport that accepts everything
RateInit ==
  /\ procEnvUser \in EnvUsers
  /\ procEnvPass \in EnvPasses
  /\ CallsToCome(RateDispatches)
  /\ SingleIdle
  /\ LoopIdle
  /\ MsgIdle
  /\ ActIdle

RateNext ==
  \/ \E d \in Calls, t \in ConcRecipients : CallOf(d, t) /\ UNCHANGED << vars, hvars, mvars, avars >>
  \/ \E d \in Calls : VerifyOkOf(d) /\ UNCHANGED << vars, hvars, mvars, avars >>
  \/ \E d \in Calls : SendSucceedsOf(d) /\ UNCHANGED << vars, hvars, mvars, avars >>
  \/ \E d \in Calls : WindowSlides(d) /\ UNCHANGED << vars, hvars, mvars, avars >>

RateSpec == RateInit /\ [][RateNext]_cvars

\* ------------------------------------------------------------ messages
\* options.subject, options.text, options.html as a caller of sendEmail gives them
Subjects == { Undefined, Str(<< >>), Str(<<"s">>) }
Bodies == { Undefined, Str(<<"b">>) }

RawOptions ==
  { [to |-> t, subject |-> s, text |-> x, html |-> h] :
      t \in ConcRecipients, s \in Subjects, x \in Bodies, h \in Bodies }

\* Variant: mailOptions without the html body
mailOptions_noHtml(options, user) ==
  [from |-> user, to |-> options.to, subject |-> options.subject,
   text |-> options.text, html |-> Undefined]

\* emailService.js:142-154: const mailOptions (from is "Workie.lk" <EMAIL_USER>)
mailOptions(options, user) ==
  [from |-> user, to |-> options.to, subject |-> options.subject,
   text |-> options.text, html |-> options.html]

\* emailService.js:52-71: sendEmail(options) called by or through w; the
\* transport is built (line 64) only when both gates let the call through
sendEmail(w, args, options) ==
  /\ mWrapper = "none"
  /\ mWrapper' = w
  /\ mArgs' = args
  /\ mOptions' = options
  /\ CallOf(1, options.to)
  /\ mConfig' = IF cPc'[1] = "verify" THEN createTransporter(useAltSmtp, procEnvUser, procEnvPass)
                                     ELSE mConfig
  /\ mReturned' = IF cPc'[1] = "verify" THEN "none" ELSE "error"
  /\ UNCHANGED << useAltSmtp, clientUrl, mCloudConfig, mMail, mSent, render1, render2 >>

\* a caller calls the exported sendEmail itself
SendEmail(options) == sendEmail("sendEmail", << >>, options)

\* emailService.js:357-429: the eight wrappers that render emailTemplates[name]
\* and return await sendEmail({to, subject, html})
Wrapper(name, email, args) ==
  LET template == emailTemplates(name, args, clientUrl)
  IN  sendEmail(name, args, [to |-> email, subject |-> Str(template.subject),
                             text |-> Undefined, html |-> Str(template.html)])

\* emailService.js:422-429
sendPasswordResetPin(email, firstName, pin) ==
  Wrapper("passwordResetPin", email, << firstName, pin >>)

\* emailService.js:433-464: the template sendOtpEmail builds itself
otpTemplate(otp, firstName) ==
  [subject |-> << "Verify Your Email - Workie.lk" >>,
   text |-> << "Hi " >> \o interp(firstName)
            \o << ", Your email verification code is: " >> \o interp(otp)
            \o << " This code will expire in 10 minutes." >>,
   html |-> << "<h3>Email Verification</h3><p>Hi " >> \o interp(firstName)
            \o << ",</p><p>Please use the following verification code:</p>" >>
            \o interp(otp) \o << "<p>This code will expire in 10 minutes.</p>" >>]

\* emailService.js:432-472: sendOtpEmail awaits sendEmail({to, subject, text, html})
sendOtpEmail(email, otp, firstName) ==
  LET template == otpTemplate(otp, firstName)
  IN  sendEmail("sendOtpEmail", << otp, firstName >>,
                [to |-> email, subject |-> Str(template.subject),
                 text |-> Str(template.text), html |-> Str(template.html)])

\* emailService.js:78-90, 142-162: verification resolves, mailOptions is
\* built and handed to transporter.sendMail
MsgVerifyOk ==
  /\ VerifyOkOf(1)
  /\ mMail' = mailOptions(mOptions, procEnvUser)
  /\ mSent' = mSent \cup {mMail'}
  /\ UNCHANGED << useAltSmtp, clientUrl, mConfig, mCloudConfig, mWrapper, mArgs,
                  mOptions, mReturned, render1, render2 >>

\* emailService.js:121-139, 188-198: a failed verification; the last one
\* is rethrown to the caller
MsgVerifyFails ==
  /\ VerifyFailsOf(1)
  /\ mReturned' = IF cPc'[1] = "failedVerify" THEN "error" ELSE mReturned
  /\ UNCHANGED << useAltSmtp, clientUrl, mConfig, mCloudConfig, mWrapper, mArgs,
                  mOptions, mMail, mSent, render1, render2 >>

\* emailService.js:138, 71-76
MsgVerifyRetry ==
  /\ VerifyRetryOf(1)
  /\ UNCHANGED mvars

\* emailService.js:162-170, 359-428, 466-472: sendMail resolves with its
\* result (messageId, response) and sendEmail returns it; the eight template
\* wrappers return it on, sendOtpEmail awaits it and ends without a return
MsgSendSucceeds ==
  /\ SendSucceedsOf(1)
  /\ mReturned' = IF mWrapper = "sendOtpEmail" THEN "undefined" ELSE "result"
  /\ UNCHANGED << useAltSmtp, clientUrl, mConfig, mCloudConfig, mWrapper, mArgs,
                  mOptions, mMail, mSent, render1, render2 >>

\* emailService.js:171-186, 188-198
MsgSendFails ==
  /\ SendFailsOf(1)
  /\ mReturned' = IF cPc'[1] = "failedSend" THEN "error" ELSE mReturned
  /\ UNCHANGED << useAltSmtp, clientUrl, mConfig, mCloudConfig, mWrapper, mArgs,
                  mOptions, mMail, mSent, render1, render2 >>

\* emailService.js:185, 160-162: the same mailOptions goes to sendMail again
MsgSendRetry ==
  /\ SendRetryOf(1)
  /\ mSent' = mSent \cup {mMail}
  /\ UNCHANGED << useAltSmtp, clientUrl, mConfig, mCloudConfig, mWrapper, mArgs,
                  mOptions, mMail, mReturned, render1, render2 >>

\* cloudEmailConfig.js:4-51: some caller builds the cloud transport
CreateCloud ==
  /\ mCloudConfig = NoConfig
  /\ mCloudConfig' = createCloudOptimizedTransporter(useAltSmtp, procEnvUser, procEnvPass)
  /\ UNCHANGED << useAltSmtp, clientUrl, mConfig, mWrapper, mArgs, mOptions, mMail,
                  mSent, mReturned, render1, render2 >>
  /\ UNCHANGED cvars

\* one call of an exported function, under any configuration
MsgInit ==
  /\ procEnvUser \in EnvUsers
  /\ procEnvPass \in EnvPasses
  /\ CallsToCome(1)
  /\ useAltSmtp \in Flags
  /\ clientUrl \in ClientUrls
  /\ mConfig = NoConfig
  /\ mCloudConfig = NoConfig
  /\ mWrapper = "none"
  /\ mArgs = << >>
  /\ mOptions = NoOptions
  /\ mMail = NoMail
  /\ mSent = {}
  /\ mReturned = "none"
  /\ render1 = NoRender
  /\ render2 = NoRender
  /\ SingleIdle
  /\ LoopIdle
  /\ ActIdle

MsgNext ==
  \/ \E o \in RawOptions : SendEmail(o) /\ UNCHANGED << vars, hvars, avars >>
  \/ \E n \in Templates \ {"passwordResetPin"}, e \in ConcRecipients :
       \E a \in ArgTuples(arity(n)) : Wrapper(n, e, a) /\ UNCHANGED << vars, hvars, avars >>
  \/ \E e \in ConcRecipients, a \in ArgTuples(2) :
       sendPasswordResetPin(e, a[1], a[2]) /\ UNCHANGED << vars, hvars, avars >>
  \/ \E e \in ConcRecipients, a \in ArgTuples(2) :
       sendOtpEmail(e, a[2], a[1]) /\ UNCHANGED << vars, hvars, avars >>
  \/ MsgVerifyOk /\ UNCHANGED << vars, hvars, avars >>
  \/ MsgVerifyFails /\ UNCHANGED << vars, hvars, avars >>
  \/ MsgVerifyRetry /\ UNCHANGED << vars, hvars, avars >>
  \/ MsgSendSucceeds /\ UNCHANGED << vars, hvars, avars >>
  \/ MsgSendFails /\ UNCHANGED << vars, hvars, avars >>
  \/ MsgSendRetry /\ UNCHANGED << vars, hvars, avars >>
  \/ CreateCloud /\ UNCHANGED << vars, hvars, avars >>

MessageSpec == MsgInit /\ [][MsgNext]_<< cvars, mvars >>

\* ------------------------------------------------------------ renders
\* emailTemplates[name](...args) called while CLIENT_URL is what it is
rendered(name, args) ==
  LET template == emailTemplates(name, args, clientUrl)
  IN  [template |-> name, args |-> args, url |-> clientUrl,
       subject |-> template.subject, html |-> template.html]

RenderFirst(name, args) ==
  /\ render1 = NoRender
  /\ render1' = rendered(name, args)
  /\ UNCHANGED << useAltSmtp, clientUrl, mConfig, mCloudConfig, mWrapper, mArgs,
                  mOptions, mMail, mSent, mReturned, render2 >>

RenderSecond(name, args) ==
  /\ render1 # NoRender
  /\ render2 = NoRender
  /\ render2' = rendered(name, args)
  /\ UNCHANGED << useAltSmtp, clientUrl, mConfig, mCloudConfig, mWrapper, mArgs,
                  mOptions, mMail, mSent, mReturned, render1 >>

\* the process is configured with another client base URL
ClientUrlChanges(u) ==
  /\ u # clientUrl
  /\ clientUrl' = u
  /\ UNCHANGED << useAltSmtp, mConfig, mCloudConfig, mWrapper, mArgs, mOptions,
                  mMail, mSent, mReturned, render1, render2 >>

RenderInit ==
  /\ useAltSmtp = Undefined
  /\ clientUrl \in ClientUrls \cup {Undefined}
  /\ mConfig = NoConfig
  /\ mCloudConfig = NoConfig
  /\ mWrapper = "none"
  /\ mArgs = << >>
  /\ mOptions = NoOptions
  /\ mMail = NoMail
  /\ mSent = {}
  /\ mReturned = "none"
  /\ render1 = NoRender
  /\ render2 = NoRender
  /\ SingleIdle
  /\ LoopIdle
  /\ ConcIdle
  /\ ActIdle

RenderNext ==
  \/ \E n \in Templates : \E a \in ArgTuples(arity(n)) :
       RenderFirst(n, a) /\ UNCHANGED << vars, hvars, cvars, avars >>
  \/ \E n \in Templates : \E a \in ArgTuples(arity(n)) :
       RenderSecond(n, a) /\ UNCHANGED << vars, hvars, cvars, avars >>
  \/ \E u \in ClientUrls \cup {Undefined} :
       ClientUrlChanges(u) /\ UNCHANGED << vars, hvars, cvars, avars >>

RenderSpec == RenderInit /\ [][RenderNext]_mvars

\* ------------------------------------------------------------ activity tracker
\* activityTracker.js:7-22: trackActivity(req, res, next) up to its await.
\* u = 0: req.user is not set, next() is called at once (line 22).
Request(r, u) ==
  /\ rPc[r] = "idle"
  /\ rUser' = [rUser EXCEPT ![r] = u]
  /\ IF u = 0
       THEN /\ rPc' = [rPc EXCEPT ![r] = "done"]
            /\ rNext' = [rNext EXCEPT ![r] = @ + 1]
       ELSE /\ rPc' = [rPc EXCEPT ![r] = "updating"]
            /\ UNCHANGED rNext
  /\ rAge' = [rAge EXCEPT ![r] = 0]
  /\ UNCHANGED << started, timer, lastAge, isOnline, newestAge, sPc, sAge, sTodo >>

\* activityTracker.js:12-22: User.findByIdAndUpdate is applied and resolves:
\* lastActivity becomes the Date taken at line 15, isOnline true; then next()
UpdateOk(r) ==
  /\ rPc[r] = "updating"
  /\ lastAge' = [lastAge EXCEPT ![rUser[r]] = rAge[r]]
  /\ isOnline' = [isOnline EXCEPT ![rUser[r]] = TRUE]
  /\ newestAge' = [newestAge EXCEPT ![rUser[r]] = IF rAge[r] < @ THEN rAge[r] ELSE @]
  /\ rNext' = [rNext EXCEPT ![r] = @ + 1]
  /\ rPc' = [rPc EXCEPT ![r] = "done"]
  /\ rAge' = [rAge EXCEPT ![r] = 0]
  /\ UNCHANGED << started, timer, rUser, sPc, sAge, sTodo >>

\* Variant: a catch block that only logs
UpdateFails_blocking(r) ==
  /\ rPc[r] = "updating"
  /\ rPc' = [rPc EXCEPT ![r] = "done"]
  /\ rAge' = [rAge EXCEPT ![r] = 0]
  /\ UNCHANGED << started, timer, lastAge, isOnline, newestAge, rUser, rNext, sPc, sAge,
                  sTodo >>

\* activityTracker.js:23-27: the update rejects; the catch logs and calls next()
UpdateFails(r) ==
  /\ rPc[r] = "updating"
  /\ rNext' = [rNext EXCEPT ![r] = @ + 1]
  /\ rPc' = [rPc EXCEPT ![r] = "done"]
  /\ rAge' = [rAge EXCEPT ![r] = 0]
  /\ UNCHANGED << started, timer, lastAge, isOnline, newestAge, rUser, sPc, sAge, sTodo >>

\* activityTracker.js:58-61: startOfflineStatusUpdater()
StartUpdater ==
  /\ ~started
  /\ started' = TRUE
  /\ timer' = 0
  /\ UNCHANGED << lastAge, isOnline, newestAge, rPc, rUser, rAge, rNext, sPc, sAge, sTodo >>

\* activityTracker.js:59, 34-38: the interval timer fires; markInactiveUsersOffline
\* takes fiveMinutesAgo and sends updateMany
SweepStart ==
  /\ started
  /\ timer = sweepEvery
  /\ sPc = "idle"
  /\ timer' = 0
  /\ sPc' = "running"
  /\ sAge' = 0
  /\ sTodo' = Users
  /\ UNCHANGED << started, lastAge, isOnline, newestAge, rPc, rUser, rAge, rNext >>

\* Variant: a cutoff one minute further back
matches_late(u, sa) == isOnline[u] /\ lastAge[u] - sa > staleAfter + 1

\* activityTracker.js:39-42: the filter of updateMany
matches(u, sa) == isOnline[u] /\ lastAge[u] - sa > staleAfter

\* activityTracker.js:38-46: updateMany comes to the document of u; filter and
\* update of one document are one atomic step of the database
SweepDoc(u) ==
  /\ sPc = "running"
  /\ u \in sTodo
  /\ sTodo' = sTodo \ {u}
  /\ isOnline' = [isOnline EXCEPT ![u] = IF matches(u, sAge) THEN FALSE ELSE @]
  /\ UNCHANGED << started, timer, lastAge, newestAge, rPc, rUser, rAge, rNext, sPc, sAge >>

\* activityTracker.js:46-48: updateMany resolves
SweepEnds ==
  /\ sPc = "running"
  /\ sTodo = {}
  /\ sPc' = "idle"
  /\ sAge' = 0
  /\ UNCHANGED << started, timer, lastAge, isOnline, newestAge, rPc, rUser, rAge, rNext,
                  sTodo >>

\* activityTracker.js:49-51: updateMany rejects, the catch logs; the documents
\* it had not come to stay as they are
SweepFails ==
  /\ sPc = "running"
  /\ sTodo # {}
  /\ sPc' = "idle"
  /\ sAge' = 0
  /\ sTodo' = {}
  /\ UNCHANGED << started, timer, lastAge, isOnline, newestAge, rPc, rUser, rAge, rNext >>

\* a minute goes by; a database operation settles within MaxLatency minutes
\* and the interval timer fires when it is due
Tick ==
  /\ started => timer < sweepEvery
  /\ \A r \in Requests : rPc[r] = "updating" => rAge[r] < MaxLatency
  /\ sPc = "running" => sAge < MaxLatency
  /\ timer' = IF started THEN timer + 1 ELSE timer
  /\ lastAge' = [u \in Users |-> older(lastAge[u])]
  /\ newestAge' = [u \in Users |-> older(newestAge[u])]
  /\ rAge' = [r \in Requests |-> IF rPc[r] = "updating" THEN rAge[r] + 1 ELSE rAge[r]]
  /\ sAge' = IF sPc = "running" THEN sAge + 1 ELSE sAge
  /\ UNCHANGED << started, isOnline, rPc, rUser, rNext, sPc, sTodo >>

\* the User collection as the server finds it: each user just active or
\* long inactive, online or offline
ActInit ==
  /\ started = FALSE
  /\ timer = 0
  /\ lastAge \in [Users -> {0, AgeCap}]
  /\ isOnline \in [Users -> BOOLEAN]
  /\ newestAge = lastAge
  /\ rPc = [r \in Requests |-> "idle"]
  /\ rUser = [r \in Requests |-> 0]
  /\ rAge = [r \in Requests |-> 0]
  /\ rNext = [r \in Requests |-> 0]
  /\ sPc = "idle"
  /\ sAge = 0
  /\ sTodo = {}
  /\ SingleIdle
  /\ LoopIdle
  /\ ConcIdle
  /\ MsgIdle

ActNext ==
  \/ \E r \in Requests, u \in Users \cup {0} :
       Request(r, u) /\ UNCHANGED << vars, hvars, cvars, mvars >>
  \/ \E r \in Requests : UpdateOk(r) /\ UNCHANGED << vars, hvars, cvars, mvars >>
  \/ \E r \in Requests : UpdateFails(r) /\ UNCHANGED << vars, hvars, cvars, mvars >>
  \/ StartUpdater /\ UNCHANGED << vars, hvars, cvars, mvars >>
  \/ SweepStart /\ UNCHANGED << vars, hvars, cvars, mvars >>
  \/ \E u \in Users : SweepDoc(u) /\ UNCHANGED << vars, hvars, cvars, mvars >>
  \/ SweepEnds /\ UNCHANGED << vars, hvars, cvars, mvars >>
  \/ SweepFails /\ UNCHANGED << vars, hvars, cvars, mvars >>
  \/ Tick /\ UNCHANGED << vars, hvars, cvars, mvars >>

ActivitySpec == ActInit /\ [][ActNext]_avars

\* trackActivity on its own: no updater runs, and nobody has been active yet
TrackInit ==
  /\ ActIdle
  /\ SingleIdle
  /\ LoopIdle
  /\ ConcIdle
  /\ MsgIdle

TrackNext ==
  \/ \E r \in Requests, u \in Users \cup {0} :
       Request(r, u) /\ UNCHANGED << vars, hvars, cvars, mvars >>
  \/ \E r \in Requests : UpdateOk(r) /\ UNCHANGED << vars, hvars, cvars, mvars >>
  \/ \E r \in Requests : UpdateFails(r) /\ UNCHANGED << vars, hvars, cvars, mvars >>
  \/ Tick /\ UNCHANGED << vars, hvars, cvars, mvars >>

TrackSpec == TrackInit /\ [][TrackNext]_avars

\* the updater on its own: every user is online, was last active any time
\* ago and makes no request
SweepInit ==
  /\ started = FALSE
  /\ timer = 0
  /\ lastAge \in [Users -> 0..AgeCap]
  /\ isOnline = [u \in Users |-> TRUE]
  /\ newestAge = lastAge
  /\ rPc = [r \in Requests |-> "idle"]
  /\ rUser = [r \in Requests |-> 0]
  /\ rAge = [r \in Requests |-> 0]
  /\ rNext = [r \in Requests |-> 0]
  /\ sPc = "idle"
  /\ sAge = 0
  /\ sTodo = {}
  /\ SingleIdle
  /\ LoopIdle
  /\ ConcIdle
  /\ MsgIdle

SweepNext ==
  \/ StartUpdater /\ UNCHANGED << vars, hvars, cvars, mvars >>
  \/ SweepStart /\ UNCHANGED << vars, hvars, cvars, mvars >>
  \/ \E u \in Users : SweepDoc(u) /\ UNCHANGED << vars, hvars, cvars, mvars >>
  \/ SweepEnds /\ UNCHANGED << vars, hvars, cvars, mvars >>
  \/ SweepFails /\ UNCHANGED << vars, hvars, cvars, mvars >>
  \/ Tick /\ UNCHANGED << vars, hvars, cvars, mvars >>

SweepSpec == SweepInit /\ [][SweepNext]_avars

\* ============================================================ claims

Terminal == pc \in {"done", "failed"}

\* ------------------------------------------------------------ C1
\* C1: transporter.sendMail is called only after a verification attempt of
\* the same call has succeeded: whenever a send attempt has been made, one
\* verification promise has resolved, and a call that failed without a
\* resolved verification (credential gate, recipient gate, verification
\* stage) has made no send attempt.
C1_SendOnlyAfterVerify ==
  /\ sendCalls > 0 => verifyOks = 1
  /\ (pc = "failed" /\ verifyOks = 0) => sendCalls = 0
  /\ (pc \in {"send", "sendWait", "done"}) => (verifyOks = 1 /\ sendCalls > 0)

\* a send attempt made after failed verification attempts and one success
C1_Witness == sendCalls > 0 /\ retryCount > 0 /\ verifyOks = 1

\* ------------------------------------------------------------ C2
\* C2: when every verification attempt so far has failed with EAUTH, the
\* call has failed after exactly one transporter.verify call, without a
\* backoff wait.
C2_AuthFailsAfterOneAttempt ==
  (verifyCodes = {"EAUTH"} /\ verifyOks = 0 /\ pc # "verify")
    => (pc = "failed" /\ verifyCalls = 1 /\ delay = 0)

\* ------------------------------------------------------------ C3
\* C3: if verification fails k < maxRetries times and then succeeds, the
\* call goes on to send with exactly k + 1 transporter.verify calls made,
\* the success event reports attempt k + 1, and it returns the transport's
\* result when sendMail resolves; a call never fails in the verification
\* stage before maxRetries failures.
C3_VerifySucceedsAfterK ==
  /\ verifyOks >= 1 =>
       /\ verifyOks = 1
       /\ retryCount < maxRetries
       /\ verifyCalls = retryCount + 1
       /\ sendCalls >= 1
       /\ (verifyLog.probe = verifyCalls =>
             (verifyLog.ok /\ verifyLog.attempt = retryCount + 1))
  /\ (pc = "failed" /\ verifyCalls >= 1 /\ verifyOks = 0) => retryCount = maxRetries
  /\ pc = "done" => (outcome = Result /\ verifyOks = 1)

\* four failed attempts, the fifth succeeded and the message was sent
C3_Witness ==
  /\ pc = "done"
  /\ retryCount = maxRetries - 1
  /\ verifyCalls = maxRetries
  /\ verifyLog = [probe |-> maxRetries, attempt |-> maxRetries, ok |-> TRUE]
  /\ outcome = Result

\* ------------------------------------------------------------ C4
\* C4: after a successful verification, a call whose send attempts all fail
\* fails after exactly maxSendRetries transporter.sendMail calls: never
\* more than 3 calls are made, a failed call that reached the send stage
\* has made 3 and last reported attempt 3, and after the third failure the
\* call has failed.
C4_SendFailsAfterThree ==
  /\ sendCalls <= maxSendRetries
  /\ (pc = "failed" /\ sendCalls >= 1) =>
       (sendCalls = maxSendRetries /\ sendRetryCount = maxSendRetries
          /\ sendLog = maxSendRetries)
  /\ sendRetryCount >= maxSendRetries => pc = "failed"

\* three send attempts, each refused with a connection failure
C4_Witness ==
  /\ pc = "failed"
  /\ verifyOks = 1
  /\ sendCalls = maxSendRetries
  /\ sendCodes = {"ECONNECTION"}
  /\ outcome = Thrown("sendError", "ECONNECTION")

\* ------------------------------------------------------------ C5
\* the recipients the claim is about: empty (or absent), or without '@'
EmptyOrLacksAt(t) == ~t.defined \/ Len(t.chars) = 0 \/ \A i \in 1..Len(t.chars) : t.chars[i] # "@"

\* C5 as stated: a call whose recipient is empty or lacks '@' fails with
\* 'Invalid recipient email address', whatever the process configuration,
\* with no verification and no send attempt.
C5_InvalidRecipientAlwaysValidationFailure ==
  (pc # "idle" /\ EmptyOrLacksAt(to)) =>
    /\ pc = "failed"
    /\ outcome = Thrown("Invalid recipient email address", "none")
    /\ verifyCalls = 0
    /\ sendCalls = 0

\* C5 as amended: a call whose recipient is empty or lacks '@' fails with no
\* transport created, no verification and no send attempt; the failure is
\* 'Invalid recipient email address' when EMAIL_USER and EMAIL_PASS are
\* both set, and 'Email configuration missing' otherwise (the credential
\* gate runs first).
C5_InvalidRecipientFailsAtFirstGate ==
  (pc # "idle" /\ EmptyOrLacksAt(to)) =>
    /\ pc = "failed"
    /\ outcome = IF credentialsMissing(envUser, envPass)
                   THEN Thrown("Email configuration missing", "none")
                   ELSE Thrown("Invalid recipient email address", "none")
    /\ transporters = 0
    /\ verifyCalls = 0
    /\ sendCalls = 0

\* a recipient without '@' refused with the credentials configured
C5_Witness ==
  /\ pc = "failed"
  /\ to = Str(<<"n", "o">>)
  /\ ~credentialsMissing(envUser, envPass)
  /\ outcome = Thrown("Invalid recipient email address", "none")

\* ------------------------------------------------------------ C6
\* C6: with timers firing and sendMail settling, every call that was made
\* reaches a terminal state; there it has exactly one outcome, the result
\* of a resolved sendMail or a thrown error, which never changes again; and
\* at most maxRetries verify calls and maxSendRetries sendMail calls are made.
C6_TerminatesWithOneOutcome ==
  /\ [](verifyCalls <= maxRetries /\ sendCalls <= maxSendRetries)
  /\ [](pc = "done" => outcome = Result)
  /\ [](pc = "failed" => outcome.kind = "error")
  /\ [](~Terminal => outcome = NoOutcome)
  /\ [][Terminal => (pc' = pc /\ outcome' = outcome)]_vars
  /\ (pc # "idle") ~> Terminal

\* a call that ended after all five verify calls and all three sendMail calls
C6_Witness ==
  /\ pc = "failed"
  /\ verifyCalls = maxRetries
  /\ sendCalls = maxSendRetries
  /\ outcome.kind = "error"

\* ------------------------------------------------------------ C7
\* codes the error table marks non-retryable: authentication rejected,
\* recipient rejected by the transport
NonRetryable == {"EAUTH", "EENVELOPE"}

\* C7: a non-retryable failure is never retried; in the send stage: once a
\* send attempt has failed with an authentication or recipient-rejection
\* error the call has failed: that attempt is followed by no wait and no
\* further sendMail call.  The verification stage's half of the statement
\* is C2's.
C7_NonRetryableNeverRetried ==
  sendCodes \cap NonRetryable # {} => pc = "failed"

\* ------------------------------------------------------------ C8
\* position of a stage in the order call, verification, sending, terminal
StageRank(p) ==
  CASE p = "idle" -> 0
    [] p \in {"verify", "verifyWait"} -> 1
    [] p \in {"send", "sendWait"} -> 2
    [] OTHER -> 3

\* C8: once a verification attempt has succeeded no transporter.verify call
\* is made any more; a failed send attempt is followed only by a send wait
\* or by the failure of the call; and the stages are passed in the order
\* verification, sending, terminal, none re-entered.
C8_NoReverification ==
  [][ /\ verifyOks >= 1 => (verifyCalls' = verifyCalls /\ retryCount' = retryCount)
      /\ StageRank(pc') >= StageRank(pc)
      /\ sendRetryCount' > sendRetryCount => pc' \in {"sendWait", "failed"}
    ]_vars

\* a third send attempt under way after two failed ones, verified once
C8_Witness ==
  /\ pc = "send"
  /\ sendCalls = maxSendRetries
  /\ sendRetryCount = maxSendRetries - 1
  /\ verifyOks = 1
  /\ verifyCalls = 1

\* ------------------------------------------------------------ C9
\* min(maxDelayMs, baseDelayMs * 2^attempt) with the attempt counter at 0
\* for the first failure: 3000, 6000, 12000, 24000, 30000, ...
WaitCountedFromZero(n) == min(maxDelay, baseDelay * pow2(n - 1))

\* C9 as stated: the wait after the n-th failed verification attempt is
\* 3000, 6000, 12000, 24000, 30000 ms for n = 1..5 (here allowing up to
\* jitterRange ms of jitter on top).
C9_BackoffFromBase ==
  pc = "verifyWait" =>
    /\ delay >= WaitCountedFromZero(retryCount)
    /\ delay < WaitCountedFromZero(retryCount) + jitterRange

\* the waits of the code without jitter, after the 1st..4th failure
WaitWithoutJitter == << 6000, 12000, 24000, 30000 >>

\* C9 as amended: the wait after the n-th failed verification attempt,
\* n = 1..4, is min(30000, 3000 * 2^n + jitter) with jitter in [0, 1000):
\* 6000, 12000, 24000, 30000 ms without jitter; the 5th failure is followed
\* by no wait, the call fails.
C9_BackoffFromTwiceBase ==
  /\ pc = "verifyWait" =>
       /\ retryCount \in 1..(maxRetries - 1)
       /\ delay >= WaitWithoutJitter[retryCount]
       /\ delay < WaitWithoutJitter[retryCount] + jitterRange
       /\ delay <= maxDelay
  /\ (retryCount = maxRetries) => pc = "failed"

\* the wait after the first failure, without jitter
C9_Witness == pc = "verifyWait" /\ retryCount = 1 /\ delay = 6000

\* ------------------------------------------------------------ C10
\* C10 as stated: once the caller's deadline has elapsed during a retry
\* wait, no verification or send attempt is started any more and the wait
\* ends only with the call failing as Cancelled.
C10_DeadlineCancels ==
  [][ (deadlinePassed /\ pc \in {"verifyWait", "sendWait"}) =>
        /\ verifyCalls' = verifyCalls
        /\ sendCalls' = sendCalls
        /\ pc' # pc => (pc' = "failed" /\ outcome' = Thrown("Cancelled", "none"))
    ]_vars

\* C10 as amended: sendEmail takes no deadline: when a caller's deadline
\* has elapsed during a retry wait, the wait still ends with the next
\* verification (or send) attempt being started, and no call ever fails as
\* Cancelled.
C10_DeadlineIgnored ==
  /\ [](outcome.msg # "Cancelled")
  /\ [][ (deadlinePassed /\ pc = "verifyWait" /\ pc' # pc) =>
           (pc' = "verify" /\ verifyCalls' = verifyCalls + 1) ]_vars
  /\ [][ (deadlinePassed /\ pc = "sendWait" /\ pc' # pc) =>
           (pc' = "send" /\ sendCalls' = sendCalls + 1) ]_vars

\* the third verification attempt under way, the deadline having elapsed
\* during the second wait at the latest
C10_Witness ==
  /\ deadlinePassed
  /\ pc = "verify"
  /\ verifyCalls = 3
  /\ retryCount = 2

\* ------------------------------------------------------------ C11
\* the account identity or the account secret is absent or empty
AbsentOrEmpty(v) == ~v.defined \/ Len(v.chars) = 0

\* C11: if EMAIL_USER or EMAIL_PASS is absent or empty, the call fails with
\* 'Email configuration missing', no transport is created and no
\* verification or send attempt is made.
C11_MissingCredentialsFailFirst ==
  (pc # "idle" /\ (AbsentOrEmpty(envUser) \/ AbsentOrEmpty(envPass))) =>
    /\ pc = "failed"
    /\ outcome = Thrown("Email configuration missing", "none")
    /\ transporters = 0
    /\ verifyCalls = 0
    /\ sendCalls = 0

\* a call with a valid recipient refused because only EMAIL_PASS is unset
C11_Witness ==
  /\ pc = "failed"
  /\ envUser = Str(<<"u">>)
  /\ envPass = Undefined
  /\ to = Str(<<"a", "@", "b">>)
  /\ outcome = Thrown("Email configuration missing", "none")

\* ------------------------------------------------------------ C12
\* C12: a call returns only with the result of a sendMail call that
\* resolved, which is its last one: every earlier sendMail call was counted
\* as one failed attempt (calls = failures + 1), no sendMail call follows
\* the return, and while the call runs every settled sendMail call that did
\* not resolve has been counted.
C12_SuccessIsOneResolvedSend ==
  /\ [](pc = "done" =>
          (outcome = Result /\ sendCalls = sendRetryCount + 1 /\ sendLog = sendCalls))
  /\ [](pc = "send" => sendCalls = sendRetryCount + 1)
  /\ [](pc \in {"sendWait", "failed"} => sendCalls = sendRetryCount)
  /\ [][pc = "done" => (sendCalls' = sendCalls /\ outcome' = outcome)]_vars

\* a call that returned the result of its third sendMail call
C12_Witness ==
  /\ pc = "done"
  /\ sendCalls = maxSendRetries
  /\ sendRetryCount = maxSendRetries - 1
  /\ outcome = Result

\* ------------------------------------------------------------ C13
\* a step in which a verification attempt failed and its code is known to
\* be c: c is new among the codes seen, or the only code seen
VerifyFailedWith(c) ==
  /\ retryCount' = retryCount + 1
  /\ (verifyCodes' \ verifyCodes = {c} \/ verifyCodes' = {c})

\* the same for a send attempt
SendFailedWith(c) ==
  /\ sendRetryCount' = sendRetryCount + 1
  /\ (sendCodes' \ sendCodes = {c} \/ sendCodes' = {c})

\* C13: whenever an attempt of sendEmail fails, sendEmail goes on to a
\* retry wait exactly when handleCloudEmailError, given the failure's code,
\* the number of the failed attempt and the stage's maximum, returns
\* shouldRetry = true.
C13_RetryDecisionsFollowClassifier ==
  [][ /\ \A c \in VerifyCodes :
           VerifyFailedWith(c) =>
             ((pc' = "verifyWait")
                <=> handleCloudEmailError(c, retryCount', maxRetries).shouldRetry)
      /\ \A c \in SendCodes :
           SendFailedWith(c) =>
             ((pc' = "sendWait")
                <=> handleCloudEmailError(c, sendRetryCount', maxSendRetries).shouldRetry)
    ]_vars

\* ------------------------------------------------------------ C14
\* C14: handleCloudEmailError returns shouldRetry = false for EAUTH whatever
\* the attempt number and the maximum, and shouldRetry = true for
\* ECONNECTION, ETIMEDOUT and EDNS on every attempt before the last allowed
\* one (attempt < maxAttempts).
C14_AuthNeverConnectivityBeforeLast ==
  /\ hRes.code = "EAUTH" => ~hRes.shouldRetry
  /\ (hRes.code \in {"ECONNECTION", "ETIMEDOUT", "EDNS"}
        /\ hRes.attempt < hRes.maxAttempts) => hRes.shouldRetry

C14_Witness ==
  /\ hRes.code = "EAUTH" /\ hRes.attempt = 3 /\ hRes.maxAttempts = 5
  /\ ~hRes.shouldRetry

\* ------------------------------------------------------------ C15
\* C15: an unrecognised code is classified retryable on the first attempt
\* when more than one attempt is allowed, and a loop that retries exactly
\* when the classifier says so, fed only unrecognised failures, makes at
\* most 3 attempts, and at most maxAttempts attempts when maxAttempts < 3.
C15_UnknownCappedAtThree ==
  /\ (hRes.code = "EOTHER" /\ hRes.attempt = 1 /\ hRes.maxAttempts > 1)
        => hRes.shouldRetry
  /\ hAllUnknown => (hAttempt <= 3 /\ hAttempt <= hMaxAttempts)

C15_Witness ==
  /\ hPc = "stopped" /\ hAllUnknown /\ hAttempt = 3 /\ hMaxAttempts = 5
  /\ hRes = [code |-> "EOTHER", attempt |-> 3, maxAttempts |-> 5,
             shouldRetry |-> FALSE, delay |-> 3000]

\* ------------------------------------------------------------ C16
Sending(d) == cPc[d] \in {"send", "sendWait", "done", "failedSend"}

\* C16: in every call that got as far as building its message, the
\* EMAIL_USER tested by the credential gate, the auth.user of the call's
\* transporter and the address in the message's From header are one and the
\* same value, whatever another task did to process.env while the call was
\* suspended.
C16_OneIdentityPerDispatch ==
  \A d \in Calls :
    Sending(d) => (cGateUser[d] = cAuthUser[d] /\ cAuthUser[d] = cFrom[d])

\* ------------------------------------------------------------ C17
Local(d) == << cPc[d], cTo[d], cGateUser[d], cAuthUser[d], cFrom[d],
               cRetryCount[d], cSendRetryCount[d], cVerifyCalls[d], cSendCalls[d] >>

VerifyAnswered(d) ==
  cPc[d] \in {"verifyWait", "failedVerify", "send", "sendWait", "done", "failedSend"}

\* what call d's own transport answers so far add up to
OwnAnswersOnly(d) ==
  /\ cPc[d] \in {"idle", "failedConfig", "failedRecipient"} =>
       (cVerifyCalls[d] = 0 /\ cSendCalls[d] = 0 /\ cRetryCount[d] = 0)
  /\ cPc[d] = "verify" => (cVerifyCalls[d] = cRetryCount[d] + 1 /\ cRetryCount[d] < 5)
  /\ cPc[d] = "verifyWait" => (cVerifyCalls[d] = cRetryCount[d] /\ cRetryCount[d] \in 1..4)
  /\ cPc[d] = "failedVerify" => (cVerifyCalls[d] = 5 /\ cRetryCount[d] = 5)
  /\ Sending(d) => (cVerifyCalls[d] = cRetryCount[d] + 1 /\ cRetryCount[d] < 5)
  /\ ~Sending(d) => (cSendCalls[d] = 0 /\ cSendRetryCount[d] = 0)
  /\ cPc[d] \in {"send", "done"} =>
       (cSendCalls[d] = cSendRetryCount[d] + 1 /\ cSendRetryCount[d] < 3)
  /\ cPc[d] = "sendWait" =>
       (cSendCalls[d] = cSendRetryCount[d] /\ cSendRetryCount[d] \in 1..2)
  /\ cPc[d] = "failedSend" => (cSendCalls[d] = 3 /\ cSendRetryCount[d] = 3)

\* C17: whatever other calls of sendEmail are running or have run, a call
\* starts verification with attempt 1 and sending with attempt 1, a step
\* changes the state of one call only, and a call's attempt counts and its
\* outcome are those its own transport answers add up to.
C17_CallsShareNoState ==
  /\ [][\A d \in Calls :
          (cPc[d] = "idle" /\ cPc'[d] = "verify") =>
             (cRetryCount'[d] = 0 /\ cVerifyCalls'[d] = 1)]_cvars
  /\ [][\A d \in Calls :
          (cPc[d] = "verify" /\ cPc'[d] = "send") =>
             (cSendRetryCount'[d] = 0 /\ cSendCalls'[d] = 1)]_cvars
  /\ [][\E d \in Calls : \A e \in Calls \ {d} : Local(e)' = Local(e)]_cvars
  /\ [](\A d \in Calls : OwnAnswersOnly(d))

C17_Witness ==
  /\ cPc[1] = "verifyWait" /\ cRetryCount[1] = 3
  /\ cPc[2] = "send" /\ cRetryCount[2] = 0 /\ cVerifyCalls[2] = 1
  /\ cSendRetryCount[2] = 0 /\ cSendCalls[2] = 1

\* ------------------------------------------------------------ C18
Waiting(d) == cPc[d] \in {"verifyWait", "sendWait"}

\* every step call e could take on its own is possible now
OwnStepsEnabled(e) ==
  /\ cPc[e] = "idle" => \A t \in ConcRecipients : ENABLED CallOf(e, t)
  /\ cPc[e] = "verify" => (ENABLED VerifyOkOf(e) /\ ENABLED VerifyFailsOf(e))
  /\ cPc[e] = "verifyWait" => ENABLED VerifyRetryOf(e)
  /\ cPc[e] = "send" => (ENABLED SendSucceedsOf(e) /\ ENABLED SendFailsOf(e))
  /\ cPc[e] = "sendWait" => ENABLED SendRetryOf(e)

\* C18: while a call is suspended in a verification or send retry wait,
\* every other call can take each of its own next steps, up to its end.
C18_WaitBlocksNobody ==
  \A d \in Calls : Waiting(d) => \A e \in Calls \ {d} : OwnStepsEnabled(e)

C18_Witness ==
  /\ cPc[1] = "verifyWait" /\ cRetryCount[1] = 1
  /\ cPc[2] = "done" /\ cVerifyCalls[2] = 1 /\ cSendCalls[2] = 1

\* ------------------------------------------------------------ C19
\* C19: the calls whose message went to a transport within the last 2000 ms
\* are never more than 3, over all running calls taken together.
C19_RateLimitAcrossDispatches == Cardinality(inWindow) <= rateLimit

\* ------------------------------------------------------------ C20
\* C20: a call to a recipient another call has also been made to still makes
\* its own transporter.verify call before it sends and its own
\* transporter.sendMail call before it succeeds; both calls can succeed.
C20_NoCoalescing ==
  \A d \in Calls : \A e \in Calls \ {d} :
    (cTo[d] = cTo[e] /\ cPc[d] # "idle" /\ cPc[e] # "idle") =>
       /\ Delivering(d) => cVerifyCalls[d] >= 1
       /\ cPc[d] = "done" => cSendCalls[d] >= 1

C20_Witness ==
  /\ cPc[1] = "done" /\ cPc[2] = "done" /\ cTo[1] = cTo[2]
  /\ cVerifyCalls[1] >= 1 /\ cVerifyCalls[2] >= 1
  /\ cSendCalls[1] >= 1 /\ cSendCalls[2] >= 1

\* ------------------------------------------------------------ C27
\* C27 as stated: the send stage makes 3 attempts; the wait after the first
\* failed send attempt is 1000 ms, after the second 2000 ms, and the third
\* failure is followed by no wait.
C27_SendBackoffFromBase ==
  /\ pc = "sendWait" =>
       (sendRetryCount \in 1..2 /\ sendDelay = << 1000, 2000 >>[sendRetryCount])
  /\ sendRetryCount = 3 => pc = "failed"

\* C27 amended: the send stage makes 3 attempts; the wait after the first
\* failed send attempt is 2000 ms, after the second 4000 ms (the exponent is
\* the number of failures so far), and the third failure is followed by no
\* wait: the call fails at once.
C27_SendBackoffFromTwiceBase ==
  /\ pc = "sendWait" =>
       (sendRetryCount \in 1..2 /\ sendDelay = << 2000, 4000 >>[sendRetryCount])
  /\ sendRetryCount = 3 => (pc = "failed" /\ sendDelay = 4000)
  /\ sendRetryCount <= 3 /\ sendCalls <= 3

C27_Witness ==
  /\ pc = "failed" /\ sendRetryCount = 3 /\ sendCalls = 3 /\ sendDelay = 4000

\* ------------------------------------------------------------ C30
\* C30: every wait between two verification attempts, jitter included, is at
\* most 30000 ms, and within one call each wait is at least as long as the
\* one before it.
C30_VerifyWaitsCappedAndMonotone ==
  /\ [](delay <= 30000)
  /\ [][delay' >= delay]_vars
  /\ [](pc = "verifyWait" => delay >= 6000)

C30_Witness ==
  /\ pc = "verifyWait" /\ retryCount = 4 /\ delay = 30000

\* ------------------------------------------------------------ C28
\* probe p is the one the call is waiting for
Awaited(p) == pc = "verify" /\ p = verifyCalls

\* C28: each verification attempt has exactly one outcome, a failure or a
\* success; the 20 s timer firing on an unanswered probe counts one failed
\* attempt; and the callback of a probe the call is no longer waiting for
\* changes neither the attempt counters, nor where the call is, nor its
\* outcome.
C28_OneOutcomePerAttempt ==
  /\ [](verifyCalls = retryCount + verifyOks + (IF pc = "verify" THEN 1 ELSE 0))
  /\ [](verifyOks <= 1)
  /\ [][(pc = "verify" /\ probes' = probes /\ pc' # pc) =>
          (retryCount' = retryCount + 1 /\ "TIMEOUT" \in verifyCodes'
             /\ verifyOks' = verifyOks)]_vars
  /\ [][\A p \in probes :
          (p \notin probes' /\ ~Awaited(p)) =>
             /\ pc' = pc
             /\ retryCount' = retryCount
             /\ sendRetryCount' = sendRetryCount
             /\ verifyCalls' = verifyCalls
             /\ sendCalls' = sendCalls
             /\ verifyOks' = verifyOks
             /\ outcome' = outcome]_vars

C28_Witness ==
  /\ pc = "failed" /\ retryCount = 5 /\ verifyOks = 0
  /\ verifyLog.probe = 1 /\ verifyLog.ok /\ verifyLog.attempt >= 2

\* ------------------------------------------------------------ C29
\* C29: the attempt number a verify callback logs is the ordinal of the
\* verification attempt that issued the probe calling back.
C29_LoggedAttemptIsProbeOrdinal ==
  verifyLog.probe # 0 => verifyLog.attempt = verifyLog.probe

\* ------------------------------------------------------------ C23
\* a step that ends a verification attempt, a send attempt or the call
EndsAttemptOrCall ==
  \/ retryCount' # retryCount
  \/ verifyOks' # verifyOks
  \/ sendRetryCount' # sendRetryCount
  \/ (pc \notin {"done", "failed"} /\ pc' \in {"done", "failed"})

\* C23 as stated: every verification attempt, every send attempt and the end
\* of the call are logged before the next attempt or the return, and every
\* event about an attempt carries the attempt number and the total of
\* attempts allowed.
C23_AttemptEventsCarryNumberAndTotal ==
  /\ [][EndsAttemptOrCall => events' # {}]_vars
  /\ [](\A e \in events :
          e.msg # "Email sending failed" => (e.attempt >= 1 /\ e.total >= 1))

\* C23 amended: every verification attempt, every send attempt and the end
\* of the call are logged in the slice that ends them.  The verify callback's
\* events, the retry notice and the failed-send event carry an attempt
\* number and the stage's total (5 or 3); the successful-send event carries
\* the attempt number without a total; a verification attempt ended by the
\* 20 s timer is logged only by the catch block, which names the next attempt
\* or, when the attempts are exhausted, the total alone.
C23_EveryAttemptLogged ==
  /\ [][retryCount' = retryCount + 1 =>
          \/ Event("Retrying SMTP verification", retryCount' + 1, 5) \in events'
          \/ (retryCount' = 5
                /\ Event("All SMTP verification attempts failed", 0, 5) \in events')]_vars
  /\ [][verifyOks' = verifyOks + 1 =>
          Event("Email server ready to send messages", retryCount + 1, 5) \in events']_vars
  /\ [][sendRetryCount' = sendRetryCount + 1 =>
          Event("Email send attempt failed", sendRetryCount', 3) \in events']_vars
  /\ [][(pc # "done" /\ pc' = "done") =>
          events' = { Event("Email sent successfully", sendRetryCount + 1, 0) }]_vars
  /\ [][(pc # "failed" /\ pc' = "failed") =>
          Event("Email sending failed", 0, 0) \in events']_vars
  /\ [](\A e \in events :
          e.msg \in {"Transporter verification error", "Email server ready to send messages",
                     "Retrying SMTP verification", "Email send attempt failed"}
            => (e.attempt >= 1 /\ e.total \in {3, 5}))

C23_Witness ==
  /\ pc = "done" /\ retryCount >= 1 /\ "TIMEOUT" \in verifyCodes
  /\ events = { Event("Email sent successfully", 2, 0) }

\* ------------------------------------------------------------ C21
Built == { c \in { mConfig, mCloudConfig } : c # NoConfig }

\* C21: every transport configuration either builder produced has port 465
\* exactly when USE_ALTERNATIVE_SMTP is the string 'true' and port 587 for
\* every other value, the unset flag included; implicit TLS (secure) is on
\* if and only if the port is 465.
C21_ProfileFollowsFlag ==
  \A c \in Built :
    /\ c.port \in { 465, 587 }
    /\ (c.port = 465) <=> (useAltSmtp = Str(<<"t", "r", "u", "e">>))
    /\ c.secure <=> (c.port = 465)

\* both builders ran under the flag 'true' and chose port 465 with implicit TLS
C21_Witness ==
  /\ useAltSmtp = Str(<<"t", "r", "u", "e">>)
  /\ mConfig # NoConfig /\ mConfig.port = 465 /\ mConfig.secure
  /\ mCloudConfig # NoConfig /\ mCloudConfig.port = 465 /\ mCloudConfig.secure

\* ------------------------------------------------------------ C22
\* the request resolves to no subject, or to neither a text nor an html body
LacksSubjectOrBody(o) == Falsy(o.subject) \/ (Falsy(o.text) /\ Falsy(o.html))

\* C22: a request without a subject, or without both text and html body, is
\* rejected before any verification attempt and never reaches sendMail.
C22_NoSendWithoutSubjectOrBody ==
  (mWrapper # "none" /\ LacksSubjectOrBody(mOptions)) =>
    /\ cVerifyCalls[1] = 0
    /\ cSendCalls[1] = 0
    /\ mSent = {}
    /\ mReturned = "error"

\* ------------------------------------------------------------ C25
\* C25: a wrapper called with one of its template's parameters missing
\* fails, makes no verification or send attempt and produces no message.
C25_MissingParameterNeverSent ==
  (mWrapper \in Templates /\ \E i \in DOMAIN mArgs : ~mArgs[i].defined) =>
    /\ cVerifyCalls[1] = 0
    /\ cSendCalls[1] = 0
    /\ mSent = {}
    /\ mReturned = "error"

\* ------------------------------------------------------------ C26
\* sub occurs in seq as a run of consecutive elements
Contains(seq, sub) ==
  \E i \in 0..(Len(seq) - Len(sub)) : SubSeq(seq, i + 1, i + Len(sub)) = sub

HandedOver == cPc[1] \in { "send", "sendWait", "done", "failedSend" }

SameRender == render1.subject = render2.subject /\ render1.html = render2.html

TwoRendersOfSameArguments ==
  /\ render1 # NoRender
  /\ render2 # NoRender
  /\ render1.template = render2.template
  /\ render1.args = render2.args

\* C24: two renders of a template with identical arguments give the same
\* subject and body, whatever CLIENT_URL is at each of the two renders.
C24_SameArgumentsSameOutput == TwoRendersOfSameArguments => SameRender

\* C24 as the code has it: two renders of a template with identical
\* arguments give the same subject and body when CLIENT_URL is the same at
\* both renders, or when the template is emailVerificationCode or
\* passwordResetPin, which hold no link to the client.
C24_SameArgumentsAndUrlSameOutput ==
  (/\ TwoRendersOfSameArguments
   /\ \/ render1.url = render2.url
      \/ render1.template \in { "emailVerificationCode", "passwordResetPin" })
    => SameRender

\* passwordResetPin rendered twice with a first name and a PIN, CLIENT_URL
\* having changed in between
C24_Witness ==
  /\ render1.template = "passwordResetPin"
  /\ render2.template = "passwordResetPin"
  /\ render1.args = << Str(<<"A">>), Str(<<"6", "7">>) >>
  /\ render2.args = render1.args
  /\ render1.url # render2.url

\* ------------------------------------------------------------ C31
ConnectionCodes == { "ECONNECTION", "ETIMEDOUT" }

\* the step is the failure that exhausts the verification stage
ExhaustsVerification == pc = "verify" /\ pc' = "failed" /\ retryCount' >= maxRetries

\* the failure of this step came with a connection code: every failure of
\* the call did, or the step brought a connection code not seen before
FailedOnConnection ==
  /\ verifyCodes' # {}
  /\ \/ verifyCodes' \subseteq ConnectionCodes
     \/ verifyCodes' # verifyCodes /\ (verifyCodes' \ verifyCodes) \subseteq ConnectionCodes

\* C31: a dispatch never terminates with the error that announces a retry;
\* when the verification stage is exhausted by a connection failure the
\* error raised is 'SMTP connection persistently failing'.
C31_ExhaustedConnectionErrorIsPersistent ==
  [][/\ pc' = "failed" => outcome'.msg # "SMTP connection failed. Retrying"
     /\ (ExhaustsVerification /\ FailedOnConnection) =>
          outcome'.msg = "SMTP connection persistently failing"]_vars

\* the fifth attempt failed with ECONNECTION after four DNS failures
C31_Witness ==
  /\ pc = "failed"
  /\ retryCount = maxRetries
  /\ verifyCodes = { "EDNS", "ECONNECTION" }
  /\ outcome = Thrown("SMTP connection persistently failing", "none")

\* ------------------------------------------------------------ C32
\* the nine send* wrappers
WrapperNames == Templates \cup { "sendOtpEmail" }

\* C32: the caller of a send* wrapper gets the outcome of the wrapper's one
\* dispatch: the transport's result when the dispatch succeeded, the raised
\* failure when it failed.
C32_WrapperGivesDispatchOutcome ==
  mWrapper \in WrapperNames =>
    /\ cVerifyCalls[1] <= maxRetries /\ cSendCalls[1] <= maxSendRetries
    /\ cPc[1] = "done" => mReturned = "result"
    /\ cPc[1] \in { "failedConfig", "failedRecipient", "failedVerify", "failedSend" } =>
         mReturned = "error"

\* ------------------------------------------------------------ C33
Ended(d) == cPc[d] \in { "done", "failedConfig", "failedRecipient", "failedVerify",
                         "failedSend" }

\* C33: a dispatch that has reached its terminal state has released the
\* transport it built, and the number of transports left open does not grow
\* with the number of completed dispatches.
C33_TransportReleasedAtEnd ==
  /\ \A d \in Calls : Ended(d) => d \notin OpenTransports
  /\ Cardinality(OpenTransports) <= 1

\* ------------------------------------------------------------ C34
\* C34: whatever the code, attempt and maxAttempts, handleCloudEmailError
\* answers shouldRetry only when attempt < maxAttempts, so the loop that
\* follows it makes at most maxAttempts attempts; its delay is at most
\* 30000 ms: 2000 * 2^attempt cut at 30000 for ETIMEDOUT and ECONNECTION,
\* 0 for EAUTH.
C34_RetryBelowMaxAndDelayCapped ==
  /\ hAttempt <= hMaxAttempts
  /\ hRes # NoRes =>
       /\ hRes.shouldRetry => hRes.attempt < hRes.maxAttempts
       /\ hRes.delay <= cloudMaxDelay
       /\ hRes.code \in { "ETIMEDOUT", "ECONNECTION" } =>
            hRes.delay = (IF cloudBaseDelay * pow2(hRes.attempt) <= cloudMaxDelay
                            THEN cloudBaseDelay * pow2(hRes.attempt)
                            ELSE cloudMaxDelay)
       /\ hRes.code = "EAUTH" => hRes.delay = 0

\* a fourth attempt timed out: 2000 * 2^4 is cut to 30000, and the loop goes on
C34_Witness ==
  /\ hPc = "wait"
  /\ hAttempt = 4
  /\ hRes.code = "ETIMEDOUT"
  /\ hRes.shouldRetry
  /\ hRes.delay = cloudMaxDelay

\* ------------------------------------------------------------ C35
\* C35: whatever USE_ALTERNATIVE_SMTP is, the configuration createTransporter
\* builds and the one createCloudOptimizedTransporter builds have the same
\* host, port and secure setting and the same credentials.
C35_BuildersAgree ==
  (mConfig # NoConfig /\ mCloudConfig # NoConfig) =>
    /\ mConfig.host = mCloudConfig.host
    /\ mConfig.port = mCloudConfig.port
    /\ mConfig.secure = mCloudConfig.secure
    /\ mConfig.user = mCloudConfig.user
    /\ mConfig.pass = mCloudConfig.pass

\* both builders ran under the alternative profile
C35_Witness ==
  /\ useAltSmtp = Str(<<"t", "r", "u", "e">>)
  /\ mConfig # NoConfig
  /\ mCloudConfig # NoConfig
  /\ mConfig.host = "smtp.gmail.com"
  /\ mCloudConfig.user = Str(<<"u">>)

\* ------------------------------------------------------------ C36
\* C36: trackActivity calls next() exactly once for every request, with or
\* without req.user, whether the update resolves or rejects.
C36_NextCalledExactlyOnce ==
  \A r \in Requests :
    /\ rNext[r] <= 1
    /\ rPc[r] = "done" => rNext[r] = 1

\* the update of an authenticated request was rejected (the user is still
\* offline and nothing but an update or a sweep writes isOnline) and next()
\* has been called
C36_Witness ==
  \E r \in Requests :
    /\ rPc[r] = "done"
    /\ rUser[r] # 0
    /\ ~started
    /\ ~isOnline[rUser[r]]
    /\ rNext[r] = 1

\* ------------------------------------------------------------ C37
\* no update of u's document is on its way
Quiet(u) == \A r \in Requests : ~(rPc[r] = "updating" /\ rUser[r] = u)

\* the step sets isOnline of u to false
GoesOffline(u) == isOnline[u] /\ ~isOnline'[u]

\* (a) only a running sweep sets isOnline to false, and only for a user
\* whose stored lastActivity was more than 5 minutes old when the sweep began
OnlyStaleUsers(u) == sPc = "running" /\ lastAge[u] - sAge > staleAfter

\* (b) the step that sets one user offline changes no lastActivity and no
\* other user's isOnline
NothingElseChanges(u) ==
  /\ lastAge' = lastAge
  /\ \A v \in Users \ {u} : isOnline'[v] = isOnline[v]

\* (c) no activity of u later than the sweep's cutoff has been recorded
NoActivityAfterCutoff(u) == ~(newestAge[u] < sAge + staleAfter)

\* C37: under every interleaving of trackActivity updates and sweeps, (a) the
\* sweep sets isOnline to false only for users whose lastActivity was more
\* than 5 minutes old when the sweep began, (b) it leaves every other user
\* and field as it was, and (c) a user whose activity was recorded after the
\* sweep's cutoff is online when both operations have completed: with no
\* update of the user's document on its way, the sweep does not set the
\* user offline.
C37_SweepAndTrackInterleave ==
  [][\A u \in Users : GoesOffline(u) =>
       /\ OnlyStaleUsers(u)
       /\ NothingElseChanges(u)
       /\ Quiet(u) => NoActivityAfterCutoff(u)]_avars

====
